---- MODULE Spec2Model ----
(***************************************************************************)
(* UdioPlayer (src/udio-player.js, v1.1.0): the playback controller, its   *)
(* section-loop timer and event registry, the search client with its       *)
(* in-memory cache, and the CORS fallback chain of _fetchWithFallback.     *)
(*                                                                         *)
(* Numbers: volume levels are tenths (10 is 1.0, 15 is 1.5, -1 is -0.1);   *)
(* positions and loop offsets are whole position units.                    *)
(* An optional JavaScript value is a sequence of length at most one:       *)
(* <<>> is undefined/null, <<v>> is the value v.                           *)
(***************************************************************************)
EXTENDS Integers, Sequences, FiniteSets, TLC

\* ------------------------------------------------------------------ bounds
\* Audio elements created in one behaviour.
MaxHandles == 2
\* Duration of every track, in position units.
MaxTime == 3
\* Largest repetition count handed to loopSection.
MaxReps == 3
\* Callbacks held by the registry at one time.
MaxListeners == 2

None == <<>>
Some(v) == <<v>>
IsSome(o) == o # <<>>
Get(o) == o[1]

Min(a, b) == IF a < b THEN a ELSE b
Max(a, b) == IF a > b THEN a ELSE b

\* ------------------------------------------------------------------ inputs
Events == {"ended", "timeupdate"}
Callbacks == {"cb1", "cb2"}
TrackUrls == {"http://c.mp3"}
\* A track object as callers hand it to loadTrack / play.
Tracks == { [id |-> "t1", url |-> "http://a.mp3", tags |-> <<"jazz">>],
            [id |-> "t2", url |-> "http://b.mp3", tags |-> <<>>] }
\* UdioAudioOptions: volume within the documented 0.0 .. 1.0.
AudioOptions == [volume : {None, Some(5)}, loop : {None, Some(TRUE)},
                 autoplay : {None, Some(TRUE)}]
\* Levels handed to setVolume: -0.1, 0, 0.5, 1.5.
VolumeLevels == {-1, 0, 5, 15}
\* UdioLoopOptions.
LoopOptions == [startTime : {1}, endTime : {2, MaxTime},
                repetitions : {None} \cup {Some(n) : n \in 0..MaxReps}]
SeekTargets == {-1, 1, MaxTime + 1}
\* Playback rates in tenths: 0, 0.2, 0.5, 1.0, 4.0, 5.0.
Rates == {0, 2, 5, 10, 40, 50}
\* UdioAudioOptions of a load that gives a playbackRate.
RateOptions == [volume : {None}, loop : {None}, autoplay : {None}, playbackRate : Rates]


\* ---------------------------------------------------------- search and fetch
\* Search calls and direct fetch calls made in one behaviour.
MaxCalls == 3
\* Largest maxRetries a player is constructed with.
MaxRetries == 2
\* The constructor's default retry budget.
DefaultMaxRetries == 4

\* Fetches in flight at one time when calls overlap.
MaxInFlight == 2

\* Keyword plays made in one behaviour when plays overlap.
MaxPlays == 2

\* Relay requests handed to the worker in one behaviour.
MaxRelay == 3

\* Script-injection requests made in one behaviour.
MaxJsonp == 2

\* Half-cooldowns the clock advances in one behaviour.
MaxTicks == 3

\* CorsProxyManager.retryDelay: 30 minutes, in milliseconds.
RetryDelay == 30 * 60 * 1000

\* The constructor's default page size.
DefaultPageSize == 20
\* The default max-age of a search, in hours.
DefaultMaxAge == 168

CorsModes == {"direct", "proxy", "auto"}

\* CorsProxyManager.proxies, in list order (index 0 first).
Proxies ==
  << [name |-> "allorigins", methods |-> {"GET"}],
     [name |-> "corsproxy.io", methods |-> {"GET", "POST"}],
     [name |-> "thingproxy", methods |-> {"GET", "POST"}],
     [name |-> "jsonp", methods |-> {"GET"}] >>

NumProxies == Len(Proxies)

\* UdioSearchOptions with every field left out.
NoOptions ==
  [ searchTerm |-> None, tags |-> None, sort |-> None, maxAgeInHours |-> None,
    userId |-> None, page |-> None, maxResults |-> None ]

\* UdioSearchOptions: each field absent, falsy or set.
SearchOptions ==
  [ searchTerm : {None, Some(""), Some("rock")},
    tags : {None, Some(<<>>), Some(<<"jazz">>)},
    sort : {None, Some("likes")},
    maxAgeInHours : {None, Some(0), Some(24), Some(DefaultMaxAge)},
    userId : {None, Some("u1")},
    page : {None, Some(0), Some(1)},
    maxResults : {None, Some(1)} ]

\* Page sizes a player is constructed with.
PageSizes == {5, DefaultPageSize}

\* The searches issued against the network model.
NetQueries ==
  { NoOptions,
    [NoOptions EXCEPT !.maxAgeInHours = Some(DefaultMaxAge)],
    [NoOptions EXCEPT !.tags = Some(<<"jazz">>)] }

Genres == {"jazz"}

\* What play is handed when it has to search: a keyword string that is not a
\* URL, or an array of tags.
Keywords == { [isString |-> TRUE, term |-> "rock", tags |-> <<>>],
              [isString |-> FALSE, term |-> "", tags |-> <<"jazz">>] }

\* options of a direct call of _fetchWithFallback: the method, and the names of
\* the headers in options.headers.
FetchOptions ==
  { [method |-> "GET", headers |-> {}],
    [method |-> "POST", headers |-> {"X-Api-Key"}] }

\* Raw search-result records of the API.
Songs == { [id |-> "t1", song_path |-> "http://a.mp3", tags |-> Some(<<"jazz">>)],
           [id |-> "t2", song_path |-> "http://b.mp3", tags |-> None] }
Song(i) == CHOOSE s \in Songs : s.id = i

\* What a response carries: JSON or text by content type, text that parses as
\* JSON or not, with a data array or without.
Payloads ==
  { [isText |-> FALSE, parses |-> TRUE, hasData |-> TRUE, songs |-> <<>>],
    [isText |-> FALSE, parses |-> TRUE, hasData |-> TRUE,
     songs |-> <<Song("t2"), Song("t1")>>],
    [isText |-> TRUE, parses |-> TRUE, hasData |-> TRUE, songs |-> <<Song("t2")>>],
    [isText |-> TRUE, parses |-> FALSE, hasData |-> FALSE, songs |-> <<>>] }

\* The body of a response with an error status: an HTML page.
ErrorPage == [isText |-> TRUE, parses |-> FALSE, hasData |-> FALSE, songs |-> <<>>]

\* No response body: the call was served from the cache or failed.
NoPayload == [isText |-> FALSE, parses |-> FALSE, hasData |-> FALSE, songs |-> <<>>]

\* How a request ends: it throws (network error, worker failure message, script
\* error), or a response arrives with a 2xx status (ok) or another status.
\* A response with another status carries an error page.
Outcomes ==
  {[kind |-> "throw", ok |-> FALSE, payload |-> NoPayload]}
  \cup [kind : {"response"}, ok : {TRUE}, payload : Payloads]
  \cup [kind : {"response"}, ok : {FALSE}, payload : {ErrorPage}]

\* ------------------------------------------------------------------- state
VARIABLES
  _audioElement,    \* id of the current Audio element, 0 for null
  _currentTrack,    \* optional track record
  _loopTimer,       \* id of the interval setInterval returned, 0 for null
  _loopOptions,     \* optional [startTime, endTime, repetitions]
  _loopCount,
  _eventListeners,  \* event name -> sequence of callbacks
  handles,          \* the Audio elements created and not torn down: id -> element
  handleSeq,        \* number of Audio elements created so far
  timers,           \* ids of the intervals the browser still fires
  crossings,        \* ticks that saw currentTime >= endTime since the loop was armed
  lastTorn,         \* optional: the element stop() last tore down, as stop() left it
  preRegistered,    \* <<event, callback, handleSeq>> registered while no element was
                    \* loaded, after handleSeq loads, and not removed since
  rateRequest       \* optional: the rate setPlaybackRate was last called with

playerVars == <<_audioElement, _currentTrack, _loopTimer, _loopOptions, _loopCount,
                _eventListeners, handles, handleSeq, timers, crossings, lastTorn,
                preRegistered, rateRequest>>

VARIABLES
  corsMode,         \* 'direct', 'proxy' or 'auto'
  maxRetries,
  pageSize,
  _hasWorker,
  proxyManager,     \* [currentProxyIndex, status, lastTestedTime]
  now,              \* Date.now()
  searchCache,      \* cache key -> track list
  calls,            \* the search / fetch calls awaiting a response: id -> call
  callSeq,          \* number of calls made so far
  lastCall,         \* optional: the call that settled last, with what it returned
  returned,         \* cache key -> [body, tracks] of the last search with that key
                    \* that fetched, parsed and returned a list
  query,            \* optional search options handed to the query builder
  built             \* optional [key, body] the builder made of query

netVars == <<corsMode, maxRetries, pageSize, _hasWorker, proxyManager, now,
             searchCache, calls, callSeq, lastCall, returned, query, built>>

VARIABLES
  callbackCounter,  \* JsonpHandler.callbackCounter of the player's handler
  otherCounter,     \* callbackCounter of the handler of another player on the page
  jsonpRequests,    \* script-injection requests: number -> [callbackName, state,
                    \* script]: the promise's state and whether the script has run
  bodyScripts,      \* the script tags of those requests in document.body
  windowCallbacks,  \* the jsonpCallback_* properties of window: name -> the
                    \* request whose closure the property holds
  _requestId,       \* the id the next relay request gets
  _workerRequests,  \* the pending table: the ids that hold a {resolve, reject}
  relayPromises,    \* id -> [state, settles] of the promise _fetchWithWorker made
  lastMessage       \* optional: the message onmessage handled last

browserVars == <<callbackCounter, otherCounter, jsonpRequests, bodyScripts, windowCallbacks,
                 _requestId, _workerRequests, relayPromises, lastMessage>>

vars == <<playerVars, netVars, browserVars>>

\* The player object with the browser objects it owns, as one value.
Self ==
  [ _audioElement |-> _audioElement, _currentTrack |-> _currentTrack,
    _loopTimer |-> _loopTimer, _loopOptions |-> _loopOptions,
    _loopCount |-> _loopCount, _eventListeners |-> _eventListeners,
    handles |-> handles, handleSeq |-> handleSeq, timers |-> timers,
    crossings |-> crossings, lastTorn |-> lastTorn, preRegistered |-> preRegistered,
    rateRequest |-> rateRequest ]

Commit(p) ==
  /\ _audioElement' = p._audioElement
  /\ _currentTrack' = p._currentTrack
  /\ _loopTimer' = p._loopTimer
  /\ _loopOptions' = p._loopOptions
  /\ _loopCount' = p._loopCount
  /\ _eventListeners' = p._eventListeners
  /\ handles' = p.handles
  /\ handleSeq' = p.handleSeq
  /\ timers' = p.timers
  /\ crossings' = p.crossings
  /\ lastTorn' = p.lastTorn
  /\ preRegistered' = p.preRegistered
  /\ rateRequest' = p.rateRequest

\* new Audio(): the element's initial attributes.
NewAudio ==
  [ volume |-> 10, loop |-> FALSE, autoplay |-> FALSE, paused |-> TRUE,
    src |-> "", currentTime |-> 0, readyState |-> "empty", attached |-> {},
    playbackRate |-> 10 ]

\* The (event, callback) pairs of the registry.
RegistryPairs(p) ==
  UNION { { <<e, p._eventListeners[e][i]>> : i \in DOMAIN p._eventListeners[e] } :
          e \in Events }

RegistrySize(p) ==
  LET len[S \in SUBSET Events] ==
        IF S = {} THEN 0
        ELSE LET e == CHOOSE x \in S : TRUE
             IN Len(p._eventListeners[e]) + len[S \ {e}]
  IN len[Events]

\* ---------------------------------------------------------- private methods
_clearLoopTimer(p) ==
  IF p._loopTimer # 0
  THEN [p EXCEPT !.timers = @ \ {p._loopTimer}, !._loopTimer = 0]
  ELSE p

_setupEventListeners(p) ==
  IF p._audioElement = 0 THEN p
  ELSE [p EXCEPT !.handles[p._audioElement].attached = @ \cup RegistryPairs(p)]

_removeEventListeners(p) ==
  IF p._audioElement = 0 THEN p
  ELSE [p EXCEPT !.handles[p._audioElement].attached = @ \ RegistryPairs(p)]

\* setInterval: the browser hands out an id no live interval has.
NewTimerId(ts) == CHOOSE i \in 1..(Cardinality(ts) + 1) : i \notin ts

_setupLoopHandler(p) ==
  IF p._audioElement = 0 \/ ~IsSome(p._loopOptions) THEN p
  ELSE LET q == _clearLoopTimer(p)
           t == NewTimerId(q.timers)
       IN [q EXCEPT !.timers = @ \cup {t}, !._loopTimer = t]

\* Variant: the limit test is "exceeded" (>) instead of "reached" (>=).
loopTimerCallback_exceeds(p) ==
  IF p._audioElement = 0 \/ ~IsSome(p._loopOptions) THEN p
  ELSE LET o == Get(p._loopOptions)
           a == p._audioElement
       IN IF p.handles[a].currentTime >= o.endTime
          THEN LET seen == [p EXCEPT !.crossings = Min(@ + 1, MaxReps + 1)]
               IN IF IsSome(o.repetitions)
                  THEN LET q == [seen EXCEPT !._loopCount = @ + 1]
                       IN IF q._loopCount > Get(o.repetitions)
                          THEN [_clearLoopTimer(q) EXCEPT !._loopOptions = None]
                          ELSE [q EXCEPT !.handles[a].currentTime = o.startTime]
                  ELSE [seen EXCEPT !.handles[a].currentTime = o.startTime]
          ELSE p

\* Variant: the rewind sits inside the repetitions branch.
loopTimerCallback_rewindInBranch(p) ==
  IF p._audioElement = 0 \/ ~IsSome(p._loopOptions) THEN p
  ELSE LET o == Get(p._loopOptions)
           a == p._audioElement
       IN IF p.handles[a].currentTime >= o.endTime
          THEN LET seen == [p EXCEPT !.crossings = Min(@ + 1, MaxReps + 1)]
               IN IF IsSome(o.repetitions)
                  THEN LET q == [seen EXCEPT !._loopCount = @ + 1]
                       IN IF q._loopCount >= Get(o.repetitions)
                          THEN [_clearLoopTimer(q) EXCEPT !._loopOptions = None]
                          ELSE [q EXCEPT !.handles[a].currentTime = o.startTime]
                  ELSE seen
          ELSE p

\* The callback setInterval runs every 50 ms.
loopTimerCallback(p) ==
  IF p._audioElement = 0 \/ ~IsSome(p._loopOptions) THEN p
  ELSE LET o == Get(p._loopOptions)
           a == p._audioElement
       IN IF p.handles[a].currentTime >= o.endTime
          THEN LET seen == [p EXCEPT !.crossings = Min(@ + 1, MaxReps + 1)]
               IN IF IsSome(o.repetitions)
                  THEN LET q == [seen EXCEPT !._loopCount = @ + 1]
                       IN IF q._loopCount >= Get(o.repetitions)
                          THEN [_clearLoopTimer(q) EXCEPT !._loopOptions = None]
                          ELSE [q EXCEPT !.handles[a].currentTime = o.startTime]
                  ELSE [seen EXCEPT !.handles[a].currentTime = o.startTime]
          ELSE p

\* ----------------------------------------------------------- public methods
\* Variant: stop leaves the interval running.
stop_keepsTimer(p) ==
  LET a == p._audioElement
      r == IF a # 0
           THEN LET q1 == [p EXCEPT !.handles[a].paused = TRUE, !.handles[a].src = ""]
                    q2 == _removeEventListeners(q1)
                IN [q2 EXCEPT
                      !.lastTorn = Some([id |-> a, paused |-> q2.handles[a].paused,
                                         src |-> q2.handles[a].src,
                                         attached |-> q2.handles[a].attached]),
                      !.handles = [h \in DOMAIN q2.handles \ {a} |-> q2.handles[h]],
                      !._audioElement = 0]
           ELSE p
  IN [r EXCEPT !._currentTrack = None]

\* Variant: stop pauses the element but leaves its source in place.
stop_keepsSource(p) ==
  LET q == _clearLoopTimer(p)
      a == q._audioElement
      r == IF a # 0
           THEN LET q1 == [q EXCEPT !.handles[a].paused = TRUE]
                    q2 == _removeEventListeners(q1)
                IN [q2 EXCEPT
                      !.lastTorn = Some([id |-> a, paused |-> q2.handles[a].paused,
                                         src |-> q2.handles[a].src,
                                         attached |-> q2.handles[a].attached]),
                      !.handles = [h \in DOMAIN q2.handles \ {a} |-> q2.handles[h]],
                      !._audioElement = 0]
           ELSE q
  IN [r EXCEPT !._currentTrack = None]

\* Variant: stop also empties the registry.
stop_clearsRegistry(p) ==
  LET q == _clearLoopTimer(p)
      a == q._audioElement
      r == IF a # 0
           THEN LET q1 == [q EXCEPT !.handles[a].paused = TRUE, !.handles[a].src = ""]
                    q2 == _removeEventListeners(q1)
                IN [q2 EXCEPT
                      !.lastTorn = Some([id |-> a, paused |-> q2.handles[a].paused,
                                         src |-> q2.handles[a].src,
                                         attached |-> q2.handles[a].attached]),
                      !.handles = [h \in DOMAIN q2.handles \ {a} |-> q2.handles[h]],
                      !._audioElement = 0]
           ELSE q
  IN [r EXCEPT !._currentTrack = None, !._eventListeners = [e \in Events |-> <<>>]]

\* Variant: stop unloads the element and leaves the current track.
stop_keepsTrack(p) ==
  LET q == _clearLoopTimer(p)
      a == q._audioElement
  IN IF a # 0
     THEN LET q1 == [q EXCEPT !.handles[a].paused = TRUE, !.handles[a].src = ""]
              q2 == _removeEventListeners(q1)
          IN [q2 EXCEPT
                !.lastTorn = Some([id |-> a, paused |-> q2.handles[a].paused,
                                   src |-> q2.handles[a].src,
                                   attached |-> q2.handles[a].attached]),
                !.handles = [h \in DOMAIN q2.handles \ {a} |-> q2.handles[h]],
                !._audioElement = 0]
     ELSE q

stop(p) ==
  LET q == _clearLoopTimer(p)
      a == q._audioElement
      r == IF a # 0
           THEN LET q1 == [q EXCEPT !.handles[a].paused = TRUE, !.handles[a].src = ""]
                    q2 == _removeEventListeners(q1)
                IN [q2 EXCEPT
                      !.lastTorn = Some([id |-> a, paused |-> q2.handles[a].paused,
                                         src |-> q2.handles[a].src,
                                         attached |-> q2.handles[a].attached]),
                      !.handles = [h \in DOMAIN q2.handles \ {a} |-> q2.handles[h]],
                      !._audioElement = 0]
           ELSE q
  IN [r EXCEPT !._currentTrack = None]

\* loadTrack up to its await; the promise settles on HandleReady / HandleError.
\* track is [isString, id, url, tags]: a URL string or a track object.
loadTrack(p, track, options) ==
  LET q == stop(p)
      id == q.handleSeq + 1
      cur == IF track.isString
             THEN [id |-> "undefined", url |-> track.url, tags |-> <<>>]
             ELSE [id |-> track.id, url |-> track.url, tags |-> track.tags]
      el == [NewAudio EXCEPT
               !.volume = IF IsSome(options.volume) THEN Get(options.volume) ELSE 10,
               !.loop = (options.loop = Some(TRUE)),
               !.autoplay = (options.autoplay = Some(TRUE)),
               !.playbackRate = IF "playbackRate" \in DOMAIN options
                                   /\ options.playbackRate # 0
                                THEN options.playbackRate ELSE @]
      q1 == [q EXCEPT !._currentTrack = Some(cur),
                      !.handles = (id :> el) @@ @,
                      !._audioElement = id,
                      !.handleSeq = id]
      q2 == _setupEventListeners(q1)
  IN [q2 EXCEPT !.handles[id].src = track.url, !.handles[id].readyState = "loading"]

getCurrentTrack(p) == p._currentTrack

pause(p) ==
  IF p._audioElement # 0
  THEN [p EXCEPT !.handles[p._audioElement].paused = TRUE]
  ELSE p

\* allowed: whether the element's play() promise fulfils; a rejection is logged.
resume(p, allowed) ==
  IF p._audioElement # 0 /\ allowed
  THEN [p EXCEPT !.handles[p._audioElement].paused = FALSE]
  ELSE p

\* Variant: only the lower bound is tested.
setVolume_noUpperBound(p, level) ==
  IF p._audioElement # 0 /\ level >= 0
  THEN [p EXCEPT !.handles[p._audioElement].volume = level]
  ELSE p

setVolume(p, level) ==
  IF p._audioElement # 0 /\ level >= 0 /\ level <= 10
  THEN [p EXCEPT !.handles[p._audioElement].volume = level]
  ELSE p

\* Variant: the rate is applied whatever it is.
setPlaybackRate_noRangeCheck(p, rate) ==
  LET q == [p EXCEPT !.rateRequest = Some(rate)]
  IN IF p._audioElement # 0
     THEN [q EXCEPT !.handles[p._audioElement].playbackRate = rate]
     ELSE q

\* setPlaybackRate: rates in tenths, 0.5 is 5 and 4.0 is 40.
setPlaybackRate(p, rate) ==
  LET q == [p EXCEPT !.rateRequest = Some(rate)]
  IN IF p._audioElement # 0 /\ rate >= 5 /\ rate <= 40
     THEN [q EXCEPT !.handles[p._audioElement].playbackRate = rate]
     ELSE q

\* duration is NaN until the element is ready, and assigning NaN throws.
seek(p, seconds) ==
  IF p._audioElement # 0 /\ p.handles[p._audioElement].readyState = "ready"
  THEN [p EXCEPT !.handles[p._audioElement].currentTime = Max(0, Min(seconds, MaxTime))]
  ELSE p

\* Variant: setLoop leaves the section loop's interval running.
setLoop_keepsTimer(p, enabled) ==
  IF p._audioElement # 0
  THEN [p EXCEPT !.handles[p._audioElement].loop = enabled]
  ELSE p

setLoop(p, enabled) ==
  IF p._audioElement # 0
  THEN [_clearLoopTimer(p) EXCEPT !.handles[p._audioElement].loop = enabled]
  ELSE p

\* Variant: a position on either bound of the section counts as outside.
loopSection_boundsOutside(p, options) ==
  IF p._audioElement = 0 THEN p
  ELSE LET a == p._audioElement
           q == [_clearLoopTimer(p) EXCEPT
                   !.handles[a].loop = FALSE,
                   !._loopOptions = Some([startTime |-> options.startTime,
                                          endTime |-> options.endTime,
                                          repetitions |-> options.repetitions]),
                   !._loopCount = 0,
                   !.crossings = 0]
           r == _setupLoopHandler(q)
       IN IF r.handles[a].currentTime <= options.startTime
             \/ r.handles[a].currentTime >= options.endTime
          THEN [r EXCEPT !.handles[a].currentTime = options.startTime]
          ELSE r

\* Variant: the options are stored before the element is tested.
loopSection_storesFirst(p, options) ==
  LET s == [p EXCEPT !._loopOptions = Some([startTime |-> options.startTime,
                                            endTime |-> options.endTime,
                                            repetitions |-> options.repetitions]),
                     !._loopCount = 0]
  IN IF p._audioElement = 0 THEN s
     ELSE LET a == p._audioElement
              q == [_clearLoopTimer(s) EXCEPT !.handles[a].loop = FALSE,
                                              !.crossings = 0]
              r == _setupLoopHandler(q)
          IN IF r.handles[a].currentTime < options.startTime
                \/ r.handles[a].currentTime > options.endTime
             THEN [r EXCEPT !.handles[a].currentTime = options.startTime]
             ELSE r

loopSection(p, options) ==
  IF p._audioElement = 0 THEN p
  ELSE LET a == p._audioElement
           q == [_clearLoopTimer(p) EXCEPT
                   !.handles[a].loop = FALSE,
                   !._loopOptions = Some([startTime |-> options.startTime,
                                          endTime |-> options.endTime,
                                          repetitions |-> options.repetitions]),
                   !._loopCount = 0,
                   !.crossings = 0]
           r == _setupLoopHandler(q)
       IN IF r.handles[a].currentTime < options.startTime
             \/ r.handles[a].currentTime > options.endTime
          THEN [r EXCEPT !.handles[a].currentTime = options.startTime]
          ELSE r

cancelLoopSection(p) == [_clearLoopTimer(p) EXCEPT !._loopOptions = None]

addEventListener(p, event, callback) ==
  LET q == [p EXCEPT !._eventListeners[event] = Append(@, callback)]
  IN IF q._audioElement # 0
     THEN [q EXCEPT !.handles[q._audioElement].attached = @ \cup {<<event, callback>>}]
     ELSE [q EXCEPT !.preRegistered = @ \cup {<<event, callback, q.handleSeq>>}]

\* Variant: the callback is taken off the element but stays in the registry.
removeEventListener_elementOnly(p, event, callback) ==
  LET q == [p EXCEPT !.preRegistered =
                        {r \in @ : ~(r[1] = event /\ r[2] = callback)}]
  IN IF q._audioElement # 0
     THEN [q EXCEPT !.handles[q._audioElement].attached = @ \ {<<event, callback>>}]
     ELSE q

removeEventListener(p, event, callback) ==
  LET q == [p EXCEPT !._eventListeners[event] =
                        SelectSeq(@, LAMBDA cb : cb # callback),
                     !.preRegistered =
                        {r \in @ : ~(r[1] = event /\ r[2] = callback)}]
  IN IF q._audioElement # 0
     THEN [q EXCEPT !.handles[q._audioElement].attached = @ \ {<<event, callback>>}]
     ELSE q

\* play with a track object or an http URL: no search is involved.
play(p, input, options) ==
  loadTrack(p, input, [options EXCEPT !.autoplay = Some(TRUE)])

\* ------------------------------------------------------- CorsProxyManager
\* Variant: the index stops at the last proxy instead of wrapping.
getNextProxy_noWrap(pm) ==
  [pm EXCEPT !.currentProxyIndex = Min(@ + 1, NumProxies - 1)]

getNextProxy(pm) ==
  [pm EXCEPT !.currentProxyIndex = (@ + 1) % NumProxies]

markCurrentAsFailed(pm, t) ==
  [pm EXCEPT !.status[pm.currentProxyIndex] = "failed",
             !.lastTestedTime[pm.currentProxyIndex] = Some(t)]

markCurrentAsWorking(pm) ==
  [pm EXCEPT !.status[pm.currentProxyIndex] = "working"]

getCurrentProxy(pm) == Proxies[pm.currentProxyIndex + 1]

\* ------------------------------------------------------------ the query
\* JavaScript's x || default: an absent, empty or zero x is falsy.
TruthyStr(o) == IsSome(o) /\ Get(o) # ""
TruthyNum(o) == IsSome(o) /\ Get(o) # 0

\* Variant: the key leaves the sort order out.
cacheKey_withoutSort(options, size) ==
  [ term |-> IF TruthyStr(options.searchTerm) THEN Get(options.searchTerm) ELSE "",
    tags |-> IF IsSome(options.tags) THEN Get(options.tags) ELSE <<>>,
    sort |-> None,
    maxAge |-> options.maxAgeInHours,
    userId |-> options.userId,
    page |-> IF TruthyNum(options.page) THEN Get(options.page) ELSE 0,
    size |-> IF TruthyNum(options.maxResults) THEN Get(options.maxResults) ELSE size ]

\* The object search() hands to JSON.stringify for the cache key: stringify
\* leaves out a property whose value is undefined (None here).
cacheKey(options, size) ==
  [ term |-> IF TruthyStr(options.searchTerm) THEN Get(options.searchTerm) ELSE "",
    tags |-> IF IsSome(options.tags) THEN Get(options.tags) ELSE <<>>,
    sort |-> options.sort,
    maxAge |-> options.maxAgeInHours,
    userId |-> options.userId,
    page |-> IF TruthyNum(options.page) THEN Get(options.page) ELSE 0,
    size |-> IF TruthyNum(options.maxResults) THEN Get(options.maxResults) ELSE size ]

\* Variant of postData: the page size falls back to 20, not to the player's.
requestBody_fixedPageSize(options, size) ==
  [ searchQuery |->
      [ sort |-> IF TruthyStr(options.sort) THEN options.sort ELSE None,
        maxAgeInHours |-> IF TruthyNum(options.maxAgeInHours)
                          THEN Get(options.maxAgeInHours) ELSE DefaultMaxAge,
        searchTerm |-> IF TruthyStr(options.searchTerm)
                       THEN Get(options.searchTerm) ELSE "",
        containsTags |-> IF IsSome(options.tags) /\ Len(Get(options.tags)) > 0
                         THEN options.tags ELSE None,
        userId |-> IF TruthyStr(options.userId) THEN options.userId ELSE None ],
    pageParam |-> IF TruthyNum(options.page) THEN Get(options.page) ELSE 0,
    pageSize |-> IF TruthyNum(options.maxResults) THEN Get(options.maxResults)
                 ELSE DefaultPageSize ]

\* postData: sort is null (None) unless truthy; containsTags and userId are
\* present (Some) only when set.
requestBody(options, size) ==
  [ searchQuery |->
      [ sort |-> IF TruthyStr(options.sort) THEN options.sort ELSE None,
        maxAgeInHours |-> IF TruthyNum(options.maxAgeInHours)
                          THEN Get(options.maxAgeInHours) ELSE DefaultMaxAge,
        searchTerm |-> IF TruthyStr(options.searchTerm)
                       THEN Get(options.searchTerm) ELSE "",
        containsTags |-> IF IsSome(options.tags) /\ Len(Get(options.tags)) > 0
                         THEN options.tags ELSE None,
        userId |-> IF TruthyStr(options.userId) THEN options.userId ELSE None ],
    pageParam |-> IF TruthyNum(options.page) THEN Get(options.page) ELSE 0,
    pageSize |-> IF TruthyNum(options.maxResults) THEN Get(options.maxResults) ELSE size ]

\* Variant: the cache is consulted only for a non-empty list.
cacheHit_nonEmpty(cache, key) == key \in DOMAIN cache /\ Len(cache[key]) > 0

\* if (this.searchCache[cacheKey]): an array, empty or not, is truthy.
cacheHit(cache, key) == key \in DOMAIN cache

formatTrack(song) ==
  [ id |-> song.id, url |-> song.song_path,
    tags |-> IF IsSome(song.tags) THEN Get(song.tags) ELSE <<>> ]

\* What search makes of the fetched result: the tracks, or a thrown parse error.
formatResult(payload) ==
  IF payload.isText /\ ~payload.parses THEN [ok |-> FALSE, tracks |-> <<>>]
  ELSE IF ~payload.hasData THEN [ok |-> FALSE, tracks |-> <<>>]
  ELSE [ok |-> TRUE,
        tracks |-> [i \in 1..Len(payload.songs) |-> formatTrack(payload.songs[i])]]

_getDemoTracks ==
  << [id |-> "demo1", url |-> "https://dl.dropbox.com/s/jemg8iu17ibr3p0/bensound-summer.mp3",
      tags |-> <<"demo", "fallback">>],
     [id |-> "demo2",
      url |-> "https://dl.dropbox.com/s/zydq2wbcyjeavxu/bensound-acousticbreeze.mp3",
      tags |-> <<"demo", "fallback">>] >>

_processResponse(response) == response.payload

\* response.ok: whether the status of a response is in 200 .. 299.
Status(response) == IF response.ok THEN "2xx" ELSE "other"

\* ------------------------------------------------------------ JsonpHandler
\* The handler with the document and the window, as one value.
Dom ==
  [ callbackCounter |-> callbackCounter, otherCounter |-> otherCounter,
    jsonpRequests |-> jsonpRequests,
    bodyScripts |-> bodyScripts, windowCallbacks |-> windowCallbacks ]

CommitDom(d) ==
  /\ callbackCounter' = d.callbackCounter
  /\ otherCounter' = d.otherCounter
  /\ jsonpRequests' = d.jsonpRequests
  /\ bodyScripts' = d.bodyScripts
  /\ windowCallbacks' = d.windowCallbacks

\* request(url, params) at time t: the callback name is made of the time and
\* the counter, the callback is put on window (replacing a property of the same
\* name), the script tag in the body. The script element of request n is n.
request(d, t) ==
  LET n == Cardinality(DOMAIN d.jsonpRequests) + 1
      callbackName == <<t, d.callbackCounter>>
  IN [d EXCEPT !.callbackCounter = @ + 1,
               !.windowCallbacks =
                  (callbackName :> n) @@
                  [k \in DOMAIN @ \ {callbackName} |-> @[k]],
               !.bodyScripts = @ \cup {n},
               !.jsonpRequests = (n :> [callbackName |-> callbackName,
                                        state |-> "pending",
                                        script |-> "loading"]) @@ @]

\* request on the JsonpHandler of another player: the same code, its own counter.
requestOfOther(d, t) ==
  LET r == request([d EXCEPT !.callbackCounter = d.otherCounter], t)
  IN [r EXCEPT !.otherCounter = r.callbackCounter,
               !.callbackCounter = d.callbackCounter]

WithoutCallback(w, name) == [k \in DOMAIN w \ {name} |-> w[k]]

\* The script of request n runs and calls window[callbackName]: the closure the
\* property holds (that of request m) cleans up and resolves; removeChild
\* throws when m's tag is no longer in the body.
jsonpCallback(d, n) ==
  LET name == d.jsonpRequests[n].callbackName
      m == d.windowCallbacks[name]
      ran == [d EXCEPT !.jsonpRequests[n].script = "done"]
  IN IF m \in d.bodyScripts
     THEN [ran EXCEPT !.bodyScripts = @ \ {m},
                      !.windowCallbacks = WithoutCallback(@, name),
                      !.jsonpRequests[m].state = "resolved"]
     ELSE ran

\* Variant: the error path removes the script tag but leaves the callback.
onerror_keepsCallback(d, n) ==
  [d EXCEPT !.bodyScripts = @ \ {n},
            !.jsonpRequests[n].script = "done",
            !.jsonpRequests[n].state = "rejected"]

\* script.onerror: clean up, reject.
onerror(d, n) ==
  [d EXCEPT !.bodyScripts = @ \ {n},
            !.windowCallbacks = WithoutCallback(@, d.jsonpRequests[n].callbackName),
            !.jsonpRequests[n].script = "done",
            !.jsonpRequests[n].state = "rejected"]

\* -------------------------------------------------------- the worker relay
\* The relay's side of the player, as one value.
Relay ==
  [ _hasWorker |-> _hasWorker, _requestId |-> _requestId,
    _workerRequests |-> _workerRequests, relayPromises |-> relayPromises,
    lastMessage |-> lastMessage ]

CommitRelay(w) ==
  /\ _requestId' = w._requestId
  /\ _workerRequests' = w._workerRequests
  /\ relayPromises' = w.relayPromises
  /\ lastMessage' = w.lastMessage

\* _fetchWithWorker: without a worker the promise is rejected at once and has
\* no id; with one, the request takes the next id and waits in the table.
_fetchWithWorker(w) ==
  IF ~w._hasWorker THEN w
  ELSE LET id == w._requestId
       IN [w EXCEPT !._requestId = @ + 1,
                    !._workerRequests = @ \cup {id},
                    !.relayPromises = (id :> [state |-> "pending", settles |-> 0]) @@ @]

\* Variant: the entry is not deleted after it is settled.
onmessage_keepsEntry(w, msg) ==
  LET seen == [w EXCEPT !.lastMessage = Some(msg)]
  IN IF msg.id \in w._workerRequests
     THEN [seen EXCEPT
             !.relayPromises[msg.id] =
                [state |-> IF msg.success THEN "resolved" ELSE "rejected",
                 settles |-> @.settles + 1]]
     ELSE seen

\* _worker.onmessage: settle the pending request of the message's id and delete
\* it from the table; a message whose id is not in the table is ignored.
onmessage(w, msg) ==
  LET seen == [w EXCEPT !.lastMessage = Some(msg)]
  IN IF msg.id \in w._workerRequests
     THEN [seen EXCEPT
             !.relayPromises[msg.id] =
                [state |-> IF msg.success THEN "resolved" ELSE "rejected",
                 settles |-> @.settles + 1],
             !._workerRequests = @ \ {msg.id}]
     ELSE seen

\* ------------------------------------------------------ the fallback chain
\* s is [pm, c]: the proxy manager and the call, as the chain runs from one
\* await to the next. The call's log lists its attempts in order.
NoAudioOptions == [volume |-> None, loop |-> None, autoplay |-> None]

NewCall(id, kind, cont, options, audioOptions, method, headers) ==
  [ id |-> id, kind |-> kind, cont |-> cont, options |-> options,
    audioOptions |-> audioOptions, method |-> method, headers |-> headers,
    key |-> cacheKey(options, pageSize),
    body |-> IF kind = "search" THEN Some(requestBody(options, pageSize)) ELSE None,
    retryCount |-> 0, pc |-> "start", transport |-> "none", via |-> -1,
    log |-> <<>> ]

\* Variant: the last resort keeps the caller's headers.
simplifiedOptions_keepsHeaders(c) ==
  [credentials |-> "omit", headers |-> c.headers]

\* simplifiedOptions of the last resort: credentials omitted, and no header
\* but a Content-Type the code sets itself when there is a body.
simplifiedOptions(c) ==
  [credentials |-> "omit",
   headers |-> IF IsSome(c.body) THEN {"Content-Type"} ELSE {}]

\* What a request carries: the caller's options on the direct and proxied
\* requests, nothing on a script tag, simplifiedOptions on the last resort.
requestOptions(c, stage, transport) ==
  IF stage = "bare" THEN simplifiedOptions(c)
  ELSE IF transport = "jsonp" THEN [credentials |-> "default", headers |-> {}]
  ELSE [credentials |-> "default", headers |-> c.headers]

\* A request leaves: the call waits for it.
Issue(s, stage, transport) ==
  LET via == IF stage = "proxy" THEN s.pm.currentProxyIndex ELSE -1
      o == requestOptions(s.c, stage, transport)
  IN [s EXCEPT !.c.pc = stage, !.c.transport = transport, !.c.via = via,
               !.c.log = Append(@, [stage |-> stage, proxy |-> via, sent |-> TRUE,
                                    credentials |-> o.credentials,
                                    headers |-> o.headers])]

\* The last resort: one bare request to the unmodified URL.
lastResort(s) == Issue(s, "bare", "fetch")

RECURSIVE _fetchWithFallback(_, _)
RECURSIVE proxyAttempt(_, _)
RECURSIVE proxyFailed(_, _)

\* The catch of the proxy attempt: mark, then retry on the next proxy or give up.
proxyFailed(s, retryCount) ==
  LET s1 == [s EXCEPT !.pm = markCurrentAsFailed(@, now)]
  IN IF retryCount < maxRetries
     THEN _fetchWithFallback([s1 EXCEPT !.pm = getNextProxy(@)], retryCount + 1)
     ELSE lastResort(s1)

\* The proxy stage, up to the request it awaits. JSONP with a method other than
\* GET throws before any request leaves.
proxyAttempt(s, retryCount) ==
  IF corsMode \in {"proxy", "auto"}
  THEN LET currentProxy == getCurrentProxy(s.pm)
           s0 == [s EXCEPT !.c.retryCount = retryCount]
       IN IF currentProxy.name = "jsonp"
          THEN IF s0.c.method # "GET"
               THEN proxyFailed(
                      [s0 EXCEPT !.c.log =
                         Append(@, [stage |-> "proxy", proxy |-> s0.pm.currentProxyIndex,
                                    sent |-> FALSE, credentials |-> "default",
                                    headers |-> {}])],
                      retryCount)
               ELSE Issue(s0, "proxy", "jsonp")
          ELSE IF _hasWorker
               THEN Issue(s0, "proxy", "worker")
               ELSE Issue(s0, "proxy", "fetch")
  ELSE lastResort(s)

\* Variant: the direct attempt is made on retries too.
_fetchWithFallback_directOnRetry(s, retryCount) ==
  IF corsMode \in {"direct", "auto"}
  THEN Issue(s, "direct", "fetch")
  ELSE proxyAttempt(s, retryCount)

\* _fetchWithFallback from its entry to its first await.
_fetchWithFallback(s, retryCount) ==
  IF corsMode \in {"direct", "auto"} /\ retryCount = 0
  THEN Issue(s, "direct", "fetch")
  ELSE proxyAttempt(s, retryCount)

\* ------------------------------------------------------------------ actions
InitPlayer ==
  /\ _audioElement = 0
  /\ _currentTrack = None
  /\ _loopTimer = 0
  /\ _loopOptions = None
  /\ _loopCount = 0
  /\ _eventListeners = [e \in Events |-> <<>>]
  /\ handles = <<>>
  /\ handleSeq = 0
  /\ timers = {}
  /\ crossings = 0
  /\ lastTorn = None
  /\ preRegistered = {}
  /\ rateRequest = None

\* ------------------------------------------------- search and fetch actions
InitNet ==
  /\ proxyManager = [ currentProxyIndex |-> 0,
                      status |-> [i \in 0..(NumProxies - 1) |-> "untested"],
                      lastTestedTime |-> [i \in 0..(NumProxies - 1) |-> None] ]
  /\ now = 0
  /\ searchCache = <<>>
  /\ calls = <<>>
  /\ callSeq = 0
  /\ lastCall = None
  /\ returned = <<>>
  /\ query = None
  /\ built = None

\* No script-injection request has been made.
InitBrowser ==
  /\ callbackCounter = 0
  /\ otherCounter = 0
  /\ jsonpRequests = <<>>
  /\ bodyScripts = {}
  /\ windowCallbacks = <<>>
  /\ _requestId = 0
  /\ _workerRequests = {}
  /\ relayPromises = <<>>
  /\ lastMessage = None

\* What is kept of a settled call.
Summary(c, source, tracks, payload, status, error) ==
  [ id |-> c.id, kind |-> c.kind, cont |-> c.cont, key |-> c.key, body |-> c.body,
    source |-> source, tracks |-> tracks, payload |-> payload, status |-> status,
    error |-> error ]

\* Variant: no empty check; play(undefined) stops the player and then fails.
playRandomByGenre_noEmptyCheck(p, tracks, randomIndex, options) ==
  IF Len(tracks) = 0
  THEN [p |-> stop(p), error |-> "TypeError"]
  ELSE LET t == tracks[randomIndex]
       IN [p |-> play(p, [isString |-> FALSE, id |-> t.id, url |-> t.url,
                          tags |-> t.tags], options),
           error |-> ""]

\* playRandomByGenre after its search: the empty check, the random pick, play.
playRandomByGenre(p, tracks, randomIndex, options) ==
  IF Len(tracks) = 0
  THEN [p |-> p, error |-> "No tracks found for genre"]
  ELSE LET t == tracks[randomIndex]
       IN [p |-> play(p, [isString |-> FALSE, id |-> t.id, url |-> t.url,
                          tags |-> t.tags], options),
           error |-> ""]

\* getTrack before its search: the keywords become the term or the tags, and
\* one result is asked for.
getTrackOptions(keywords) ==
  LET o == IF keywords.isString
           THEN [NoOptions EXCEPT !.searchTerm = Some(keywords.term)]
           ELSE [NoOptions EXCEPT !.tags = Some(keywords.tags)]
  IN [o EXCEPT !.maxResults = Some(1)]

\* getTrack after its search: the first track, or null.
getTrack(tracks) == IF Len(tracks) > 0 THEN Some(tracks[1]) ELSE None

\* Variant: no null check; loadTrack(null) stops the player and then fails.
playKeyword_noNullCheck(p, tracks, options) ==
  LET track == getTrack(tracks)
  IN IF ~IsSome(track)
     THEN [p |-> stop(p), error |-> "TypeError"]
     ELSE LET t == Get(track)
          IN [p |-> play(p, [isString |-> FALSE, id |-> t.id, url |-> t.url,
                             tags |-> t.tags], options),
              error |-> ""]

\* Variant: a play whose search ends after another track was loaded gives way.
playKeyword_yieldsToLoaded(p, tracks, options) ==
  LET track == getTrack(tracks)
  IN IF ~IsSome(track)
     THEN [p |-> p, error |-> "No matching track found"]
     ELSE IF p._audioElement # 0
     THEN [p |-> p, error |-> ""]
     ELSE LET t == Get(track)
          IN [p |-> play(p, [isString |-> FALSE, id |-> t.id, url |-> t.url,
                             tags |-> t.tags], options),
              error |-> ""]

\* play with keywords or tags, after getTrack: the null check, then the load.
playKeyword(p, tracks, options) ==
  LET track == getTrack(tracks)
  IN IF ~IsSome(track)
     THEN [p |-> p, error |-> "No matching track found"]
     ELSE LET t == Get(track)
          IN [p |-> play(p, [isString |-> FALSE, id |-> t.id, url |-> t.url,
                             tags |-> t.tags], options),
              error |-> ""]

\* A search settles with tracks; the caller's continuation runs.
Settle(c, source, tracks, payload, status) ==
  IF c.cont = "playRandomByGenre"
  THEN \E randomIndex \in 1..Max(1, Len(tracks)) :
         LET r == playRandomByGenre(Self, tracks, randomIndex, c.audioOptions)
         IN /\ Commit(r.p)
            /\ lastCall' = Some(Summary(c, source, tracks, payload, status, r.error))
  ELSE IF c.cont = "play"
  THEN LET r == playKeyword(Self, tracks, c.audioOptions)
       IN /\ Commit(r.p)
          /\ lastCall' = Some(Summary(c, source, tracks, payload, status, r.error))
  ELSE /\ UNCHANGED playerVars
       /\ lastCall' = Some(Summary(c, source, tracks, payload, status, ""))

\* _fetchWithFallback is entered: the call runs to its first request.
StartCall(c0) ==
  LET s == _fetchWithFallback([pm |-> proxyManager, c |-> c0], 0)
  IN /\ proxyManager' = s.pm
     /\ calls' = (c0.id :> s.c) @@ calls

search(options, cont, audioOptions) ==
  LET c0 == NewCall(callSeq + 1, "search", cont, options, audioOptions, "POST",
                    {"Content-Type"})
  IN /\ callSeq' = callSeq + 1
     /\ IF cacheHit(searchCache, c0.key)
        THEN /\ Settle(c0, "cache", searchCache[c0.key], NoPayload, "none")
             /\ UNCHANGED <<proxyManager, calls>>
        ELSE /\ StartCall(c0)
             /\ UNCHANGED lastCall
             /\ UNCHANGED playerVars
     /\ UNCHANGED <<corsMode, maxRetries, pageSize, _hasWorker, now, searchCache,
                    returned, query, built, browserVars>>

\* The caller awaits each search or fetch before it makes the next one.
Search ==
  /\ callSeq < MaxCalls
  /\ DOMAIN calls = {}
  /\ \E options \in NetQueries : search(options, "none", NoAudioOptions)

\* _fetchWithFallback called on its own, with GET or POST and no body.
Fetch ==
  /\ callSeq < MaxCalls
  /\ DOMAIN calls = {}
  /\ \E options \in FetchOptions :
       /\ StartCall(NewCall(callSeq + 1, "fetch", "none", NoOptions, NoAudioOptions,
                            options.method, options.headers))
       /\ callSeq' = callSeq + 1
  /\ UNCHANGED <<corsMode, maxRetries, pageSize, _hasWorker, now, searchCache,
                 returned, lastCall, query, built, browserVars>>
  /\ UNCHANGED playerVars

Remove(id) == [i \in DOMAIN calls \ {id} |-> calls[i]]

\* The call goes on to its next request.
Continue(id, s) ==
  /\ proxyManager' = s.pm
  /\ calls' = [calls EXCEPT ![id] = s.c]
  /\ UNCHANGED <<searchCache, returned, lastCall>>
  /\ UNCHANGED playerVars

\* _fetchWithFallback returns payload: a search parses, formats and caches it,
\* or falls back to the demo tracks when it cannot.
FetchReturns(id, pm, payload, status) ==
  LET c == calls[id]
      r == formatResult(payload)
  IN /\ proxyManager' = pm
     /\ calls' = Remove(id)
     /\ IF c.kind = "search"
        THEN IF r.ok
             THEN /\ searchCache' = (c.key :> r.tracks) @@ searchCache
                  /\ returned' = (c.key :> [body |-> Get(c.body), tracks |-> r.tracks])
                                 @@ returned
                  /\ Settle(c, "network", r.tracks, payload, status)
             ELSE /\ UNCHANGED <<searchCache, returned>>
                  /\ Settle(c, "demo", _getDemoTracks, payload, status)
        ELSE /\ UNCHANGED <<searchCache, returned>>
             /\ Settle(c, "payload", <<>>, payload, status)

\* Variant: search has no catch; the transport failure reaches its caller.
FetchRejects_rethrows(id, pm) ==
  LET c == calls[id]
  IN /\ proxyManager' = pm
     /\ calls' = Remove(id)
     /\ UNCHANGED <<searchCache, returned>>
     /\ Settle(c, "rejected", <<>>, NoPayload, "none")

\* Variant: the catch of search caches the demo tracks it returns.
FetchRejects_cachesDemo(id, pm) ==
  LET c == calls[id]
  IN /\ proxyManager' = pm
     /\ calls' = Remove(id)
     /\ UNCHANGED returned
     /\ IF c.kind = "search"
        THEN /\ searchCache' = (c.key :> _getDemoTracks) @@ searchCache
             /\ Settle(c, "demo", _getDemoTracks, NoPayload, "none")
        ELSE /\ UNCHANGED searchCache
             /\ Settle(c, "rejected", <<>>, NoPayload, "none")

\* _fetchWithFallback throws after its last resort: a fetch called on its own
\* rejects, a search catches the error and returns the demo tracks.
FetchRejects(id, pm) ==
  LET c == calls[id]
  IN /\ proxyManager' = pm
     /\ calls' = Remove(id)
     /\ UNCHANGED <<searchCache, returned>>
     /\ IF c.kind = "search"
        THEN Settle(c, "demo", _getDemoTracks, NoPayload, "none")
        ELSE Settle(c, "rejected", <<>>, NoPayload, "none")

NetFrame == UNCHANGED <<corsMode, maxRetries, pageSize, _hasWorker, now, callSeq,
                        query, built, browserVars>>

\* The direct request ends: a 2xx response is returned, anything else falls
\* through to the proxy stage or, in direct mode, to the last resort.
DirectResponds ==
  \E id \in DOMAIN calls, o \in Outcomes :
    /\ calls[id].pc = "direct"
    /\ IF o.kind = "response" /\ o.ok
       THEN FetchReturns(id, proxyManager, _processResponse(o), Status(o))
       ELSE Continue(id, proxyAttempt([pm |-> proxyManager, c |-> calls[id]], 0))
    /\ NetFrame

\* The proxied request ends. The worker relay resolves with whatever the worker
\* fetched, whatever the status; the plain fetch requires a 2xx status; the
\* JSONP result is returned without marking the proxy.
ProxyResponds ==
  \E id \in DOMAIN calls, o \in Outcomes :
    LET c == calls[id]
        succeeded == IF c.transport = "worker" THEN o.kind = "response"
                     ELSE o.kind = "response" /\ o.ok
    IN /\ c.pc = "proxy"
       /\ IF succeeded
          THEN FetchReturns(id,
                 IF c.transport = "jsonp" THEN proxyManager
                 ELSE markCurrentAsWorking(proxyManager),
                 _processResponse(o), Status(o))
          ELSE Continue(id, proxyFailed([pm |-> proxyManager, c |-> c], c.retryCount))
       /\ NetFrame

\* The last-resort request ends: any response is returned, a throw rejects.
BareResponds ==
  \E id \in DOMAIN calls, o \in Outcomes :
    /\ calls[id].pc = "bare"
    /\ IF o.kind = "response"
       THEN FetchReturns(id, proxyManager, _processResponse(o), Status(o))
       ELSE FetchRejects(id, proxyManager)
    /\ NetFrame

\* A player constructed with the defaults, in a browser with Worker support.
Init ==
  /\ InitPlayer
  /\ InitNet
  /\ InitBrowser
  /\ pageSize = DefaultPageSize
  /\ corsMode = "proxy"
  /\ maxRetries = DefaultMaxRetries
  /\ _hasWorker = TRUE

\* A player operation that makes no request.
Step(p) == Commit(p) /\ UNCHANGED netVars /\ UNCHANGED browserVars

\* playRandomByGenre calls whose search is still out: each will load a track.
PendingLoads ==
  Cardinality({i \in DOMAIN calls : calls[i].cont \in {"playRandomByGenre", "play"}})

LoadTrack ==
  /\ handleSeq + PendingLoads < MaxHandles
  /\ \E options \in AudioOptions :
       \/ \E t \in Tracks :
            Step(loadTrack(Self, [isString |-> FALSE, id |-> t.id, url |-> t.url,
                                    tags |-> t.tags], options))
       \/ \E u \in TrackUrls :
            Step(loadTrack(Self, [isString |-> TRUE, id |-> "", url |-> u,
                                    tags |-> <<>>], options))

\* play(url): no search, the URL is loaded with autoplay.
PlayUrl ==
  /\ handleSeq + PendingLoads < MaxHandles
  /\ \E u \in TrackUrls :
       Step(play(Self, [isString |-> TRUE, id |-> "", url |-> u, tags |-> <<>>],
                 NoAudioOptions))

\* loadTrack(url, {playbackRate}).
LoadTrackWithRate ==
  /\ handleSeq + PendingLoads < MaxHandles
  /\ \E u \in TrackUrls, options \in RateOptions :
       Step(loadTrack(Self, [isString |-> TRUE, id |-> "", url |-> u, tags |-> <<>>],
                      options))

SetPlaybackRate == \E rate \in Rates : Step(setPlaybackRate(Self, rate))

Stop == Step(stop(Self))

Pause == Step(pause(Self))

Resume == \E allowed \in BOOLEAN : Step(resume(Self, allowed))

SetVolume == \E level \in VolumeLevels : Step(setVolume(Self, level))

Seek == \E seconds \in SeekTargets : Step(seek(Self, seconds))

SetLoop == \E enabled \in BOOLEAN : Step(setLoop(Self, enabled))

LoopSection == \E options \in LoopOptions : Step(loopSection(Self, options))

CancelLoopSection == Step(cancelLoopSection(Self))

AddEventListener ==
  /\ RegistrySize(Self) < MaxListeners
  /\ \E e \in Events, cb \in Callbacks : Step(addEventListener(Self, e, cb))

RemoveEventListener ==
  \E e \in Events, cb \in Callbacks : Step(removeEventListener(Self, e, cb))

\* A live interval fires: its callback reads the player it closed over.
LoopTick == \E t \in timers : Step(loopTimerCallback(Self))

\* The element of a load reports canplaythrough; autoplay starts playback.
HandleReady ==
  \E h \in DOMAIN handles :
    /\ handles[h].readyState = "loading"
    /\ handles' = [handles EXCEPT ![h].readyState = "ready",
                                  ![h].paused = IF handles[h].autoplay THEN FALSE ELSE @]
    /\ UNCHANGED <<_audioElement, _currentTrack, _loopTimer, _loopOptions, _loopCount,
                   _eventListeners, handleSeq, timers, crossings, lastTorn,
                   preRegistered, rateRequest>>
    /\ UNCHANGED netVars
    /\ UNCHANGED browserVars

\* The element of a load reports error: loadTrack rejects, nothing is undone.
HandleError ==
  \E h \in DOMAIN handles :
    /\ handles[h].readyState = "loading"
    /\ handles' = [handles EXCEPT ![h].readyState = "error"]
    /\ UNCHANGED <<_audioElement, _currentTrack, _loopTimer, _loopOptions, _loopCount,
                   _eventListeners, handleSeq, timers, crossings, lastTorn,
                   preRegistered, rateRequest>>
    /\ UNCHANGED netVars
    /\ UNCHANGED browserVars

\* Playback moves the position of a playing element; the native loop flag
\* restarts it at the end of the track.
Advance ==
  \E h \in DOMAIN handles :
    /\ handles[h].readyState = "ready"
    /\ ~handles[h].paused
    /\ \/ /\ handles[h].currentTime < MaxTime
          /\ handles' = [handles EXCEPT ![h].currentTime = @ + 1]
       \/ /\ handles[h].currentTime >= MaxTime
          /\ handles[h].loop
          /\ handles' = [handles EXCEPT ![h].currentTime = 0]
    /\ UNCHANGED <<_audioElement, _currentTrack, _loopTimer, _loopOptions, _loopCount,
                   _eventListeners, handleSeq, timers, crossings, lastTorn,
                   preRegistered, rateRequest>>
    /\ UNCHANGED netVars
    /\ UNCHANGED browserVars

\* Playback: every operation on the element, the loop timer and the position.
\* The registry operations touch only _eventListeners and the elements'
\* attached sets, which no playback operation reads; they run in SpecEvents.
Next ==
  \/ LoadTrack
  \/ Stop
  \/ Pause
  \/ Resume
  \/ SetVolume
  \/ Seek
  \/ SetLoop
  \/ LoopSection
  \/ CancelLoopSection
  \/ LoopTick
  \/ HandleReady
  \/ HandleError
  \/ Advance

Spec == Init /\ [][Next]_vars

\* The event registry across loads and stops.
NextEvents ==
  \/ LoadTrack
  \/ Stop
  \/ AddEventListener
  \/ RemoveEventListener
  \/ HandleReady
  \/ HandleError

SpecEvents == Init /\ [][NextEvents]_vars

\* The playback rate: given at load, set by setPlaybackRate.
NextRate ==
  \/ LoadTrackWithRate
  \/ SetPlaybackRate
  \/ Stop
  \/ HandleReady

SpecRate == Init /\ [][NextRate]_vars

\* Section loops and the native loop flag on a playing element.
NextSection ==
  \/ PlayUrl
  \/ HandleReady
  \/ Advance
  \/ Seek
  \/ LoopSection
  \/ SetLoop
  \/ LoopTick

SpecSection == Init /\ [][NextSection]_vars

\* The controls of the element, called with and without an element loaded.
NextControls ==
  \/ PlayUrl
  \/ Stop
  \/ Pause
  \/ Resume
  \/ SetVolume
  \/ SetPlaybackRate
  \/ Seek
  \/ SetLoop
  \/ LoopSection
  \/ HandleReady

SpecControls == Init /\ [][NextControls]_vars

\* stop() from every state of the element, the loop timer and the registry.
NextStop ==
  \/ PlayUrl
  \/ Stop
  \/ AddEventListener
  \/ RemoveEventListener
  \/ LoopSection
  \/ HandleReady

SpecStop == Init /\ [][NextStop]_vars

\* The search client and the fallback chain, for every construction of the
\* player: each corsMode, each retry budget, with and without a worker.
InitSearch ==
  /\ InitPlayer
  /\ InitNet
  /\ InitBrowser
  /\ pageSize = DefaultPageSize
  /\ corsMode \in CorsModes
  /\ maxRetries \in {1, MaxRetries}
  /\ _hasWorker \in BOOLEAN

NextNet ==
  \/ Search
  \/ Fetch
  \/ DirectResponds
  \/ ProxyResponds
  \/ BareResponds

SpecNet == InitSearch /\ [][NextNet]_vars


\* playRandomByGenre up to the await of its search.
PlayRandomByGenre ==
  /\ callSeq < MaxCalls
  /\ DOMAIN calls = {}
  /\ handleSeq + PendingLoads < MaxHandles
  /\ \E genre \in Genres, options \in AudioOptions :
       search([NoOptions EXCEPT !.tags = Some(<<genre>>), !.maxResults = Some(10)],
              "playRandomByGenre", options)

\* playRandomByGenre on a player that has a track loaded and a loop armed.
NextPlay ==
  \/ PlayRandomByGenre
  \/ LoadTrack
  \/ LoopSection
  \/ ProxyResponds
  \/ BareResponds

\* A player constructed with maxRetries: 1.
InitPlay ==
  /\ InitPlayer
  /\ InitNet
  /\ InitBrowser
  /\ pageSize = DefaultPageSize
  /\ corsMode = "proxy"
  /\ maxRetries = 1
  /\ _hasWorker = TRUE

SpecPlay == InitPlay /\ [][NextPlay]_vars

\* play(keywords) and play(tags): getTrack searches, play goes on when the
\* search has settled.
PlayKeyword ==
  /\ callSeq < MaxCalls
  /\ DOMAIN calls = {}
  /\ handleSeq + PendingLoads < MaxHandles
  /\ \E keywords \in Keywords :
       search(getTrackOptions(keywords), "play", NoAudioOptions)

\* play by keyword on a player that has a track loaded and a loop armed.
NextKeyword ==
  \/ PlayKeyword
  \/ PlayUrl
  \/ LoopSection
  \/ ProxyResponds
  \/ BareResponds

SpecKeyword == InitPlay /\ [][NextKeyword]_vars

\* play(keywords) called while earlier plays still await their searches.
PlayKeywordOverlapping ==
  /\ callSeq < MaxPlays
  /\ Cardinality(DOMAIN calls) < MaxInFlight
  /\ handleSeq + PendingLoads < MaxHandles
  /\ \E keywords \in Keywords :
       search(getTrackOptions(keywords), "play", NoAudioOptions)

\* Plays that overlap on one player, their searches completing in any order.
NextPlays ==
  \/ PlayKeywordOverlapping
  \/ ProxyResponds
  \/ BareResponds

SpecPlays == InitPlay /\ [][NextPlays]_vars

\* _fetchWithFallback called while earlier calls still await their responses.
FetchOverlapping ==
  /\ callSeq < MaxCalls
  /\ Cardinality(DOMAIN calls) < MaxInFlight
  /\ \E options \in FetchOptions :
       /\ StartCall(NewCall(callSeq + 1, "fetch", "none", NoOptions, NoAudioOptions,
                            options.method, options.headers))
       /\ callSeq' = callSeq + 1
  /\ UNCHANGED <<corsMode, maxRetries, pageSize, _hasWorker, now, searchCache,
                 returned, lastCall, query, built, browserVars>>
  /\ UNCHANGED playerVars

\* Fetches that overlap on one player, completing in any order.
NextOverlap ==
  \/ FetchOverlapping
  \/ ProxyResponds
  \/ BareResponds

SpecOverlap == InitPlay /\ [][NextOverlap]_vars

\* The query builder of search: options in, cache key and request body out.
BuildQuery ==
  /\ \E options \in SearchOptions :
       /\ query' = Some(options)
       /\ built' = Some([key |-> cacheKey(options, pageSize),
                         body |-> requestBody(options, pageSize)])
  /\ UNCHANGED <<corsMode, maxRetries, pageSize, _hasWorker, proxyManager, now,
                 searchCache, calls, callSeq, lastCall, returned, browserVars>>
  /\ UNCHANGED playerVars

InitQuery ==
  /\ InitPlayer
  /\ InitNet
  /\ InitBrowser
  /\ pageSize \in PageSizes
  /\ corsMode = "proxy"
  /\ maxRetries = DefaultMaxRetries
  /\ _hasWorker = TRUE

NextQuery == BuildQuery

SpecQuery == InitQuery /\ [][NextQuery]_vars


\* Time passes: Date.now() is read at steps of half a cooldown.
Tick ==
  /\ now < MaxTicks * (RetryDelay \div 2)
  /\ now' = now + RetryDelay \div 2
  /\ UNCHANGED <<corsMode, maxRetries, pageSize, _hasWorker, proxyManager, searchCache,
                 calls, callSeq, lastCall, returned, query, built, browserVars>>
  /\ UNCHANGED playerVars

\* ------------------------------------------------- script-injection actions
JsonpFrame ==
  /\ UNCHANGED <<corsMode, maxRetries, pageSize, _hasWorker, proxyManager, now,
                 searchCache, calls, callSeq, lastCall, returned, query, built>>
  /\ UNCHANGED playerVars

JsonpRequest ==
  /\ Cardinality(DOMAIN jsonpRequests) < MaxJsonp
  /\ CommitDom(request(Dom, now))
  /\ JsonpFrame
  /\ UNCHANGED <<_requestId, _workerRequests, relayPromises, lastMessage>>

\* The injected script loads and runs: it calls the callback it was given.
JsonpCallback ==
  \E n \in DOMAIN jsonpRequests :
    /\ jsonpRequests[n].script = "loading"
    /\ jsonpRequests[n].callbackName \in DOMAIN windowCallbacks
    /\ CommitDom(jsonpCallback(Dom, n))
    /\ JsonpFrame
    /\ UNCHANGED <<_requestId, _workerRequests, relayPromises, lastMessage>>

\* The injected script fails to load.
JsonpScriptError ==
  \E n \in DOMAIN jsonpRequests :
    /\ jsonpRequests[n].script = "loading"
    /\ n \in bodyScripts
    /\ CommitDom(onerror(Dom, n))
    /\ JsonpFrame
    /\ UNCHANGED <<_requestId, _workerRequests, relayPromises, lastMessage>>

\* The injected script loads and runs without calling the callback (the
\* response was not a JSONP script): neither handler ever runs, the promise
\* stays pending.
JsonpNoCallback ==
  \E n \in DOMAIN jsonpRequests :
    /\ jsonpRequests[n].script = "loading"
    /\ jsonpRequests[n].state = "pending"
    /\ CommitDom([Dom EXCEPT !.jsonpRequests[n].state = "loaded",
                             !.jsonpRequests[n].script = "done"])
    /\ JsonpFrame
    /\ UNCHANGED <<_requestId, _workerRequests, relayPromises, lastMessage>>

NextJsonp ==
  \/ JsonpRequest
  \/ JsonpCallback
  \/ JsonpScriptError
  \/ JsonpNoCallback
  \/ Tick

SpecJsonp == Init /\ [][NextJsonp]_vars

\* A request made by the JsonpHandler of another player on the same page.
JsonpRequestOfOther ==
  /\ Cardinality(DOMAIN jsonpRequests) < MaxJsonp
  /\ CommitDom(requestOfOther(Dom, now))
  /\ JsonpFrame
  /\ UNCHANGED <<_requestId, _workerRequests, relayPromises, lastMessage>>

\* Two players on one page, each with its JsonpHandler, sharing window and
\* document.
NextJsonpShared ==
  \/ JsonpRequest
  \/ JsonpRequestOfOther
  \/ JsonpCallback
  \/ JsonpScriptError
  \/ JsonpNoCallback
  \/ Tick

SpecJsonpShared == Init /\ [][NextJsonpShared]_vars

\* ----------------------------------------------------- worker relay actions
RelayFrame ==
  /\ UNCHANGED <<corsMode, maxRetries, pageSize, _hasWorker, proxyManager, now,
                 searchCache, calls, callSeq, lastCall, returned, query, built>>
  /\ UNCHANGED <<callbackCounter, otherCounter, jsonpRequests, bodyScripts,
                 windowCallbacks>>
  /\ UNCHANGED playerVars

FetchWithWorker ==
  /\ _requestId < MaxRelay
  /\ CommitRelay(_fetchWithWorker(Relay))
  /\ RelayFrame

\* The worker answers a request it holds, in any order, with success or not.
WorkerReply ==
  \E id \in _workerRequests, success \in BOOLEAN :
    /\ CommitRelay(onmessage(Relay, [id |-> id, success |-> success]))
    /\ RelayFrame

\* A message arrives whose id is not pending: answered before, or never issued.
StaleMessage ==
  \E id \in (0..MaxRelay) \ _workerRequests, success \in BOOLEAN :
    /\ CommitRelay(onmessage(Relay, [id |-> id, success |-> success]))
    /\ RelayFrame

NextWorker ==
  \/ FetchWithWorker
  \/ WorkerReply
  \/ StaleMessage

SpecWorker == Init /\ [][NextWorker]_vars

\* Fetches of a default player while the clock runs.
NextClock ==
  \/ Fetch
  \/ ProxyResponds
  \/ BareResponds
  \/ Tick

SpecClock == Init /\ [][NextClock]_vars

\* ------------------------------------------------------------------- claims
\* The current element, where one is loaded.
Cur == handles[_audioElement]

LoopIsLimited ==
  IsSome(_loopOptions) /\ IsSome(Get(_loopOptions).repetitions)

LoopLimit == Get(Get(_loopOptions).repetitions)

\* The proxy attempts of a call's log, which come first in it.
ProxyAttempts(c) == {k \in DOMAIN c.log : c.log[k].stage = "proxy"}

SucceededWithBody(body) == {k \in DOMAIN returned : returned[k].body = body}

\* C2 as stated: after a search has succeeded, a search with the same effective
\* parameters (the parameters as sent: term, tags, sort, max-age, owner, page,
\* page size after defaults) returns the list returned before and issues no
\* request.
C2_SameEffectiveParametersHit ==
  [][ \A options \in NetQueries :
        ( /\ search(options, "none", NoAudioOptions)
          /\ SucceededWithBody(requestBody(options, pageSize)) # {} )
        => ( /\ calls' = calls
             /\ proxyManager' = proxyManager
             /\ IsSome(lastCall')
             /\ Get(lastCall').source = "cache"
             /\ \E k \in SucceededWithBody(requestBody(options, pageSize)) :
                  Get(lastCall').tracks = returned[k].tracks ) ]_vars

\* C2 amended: after a search has fetched and returned a list, a search with
\* the same cache-key parameters (term, tags, page and page size after
\* defaults; sort, max-age and owner exactly as given) returns the list most
\* recently returned for them and issues no request.
C2_SameKeyHit ==
  [][ \A options \in NetQueries :
        ( /\ search(options, "none", NoAudioOptions)
          /\ cacheKey(options, pageSize) \in DOMAIN returned )
        => ( /\ calls' = calls
             /\ proxyManager' = proxyManager
             /\ IsSome(lastCall')
             /\ Get(lastCall').source = "cache"
             /\ Get(lastCall').tracks = returned[cacheKey(options, pageSize)].tracks
           ) ]_vars

\* C2 witness: the third search repeats the first, with another successful
\* search in between, and is served the first one's list.
C2_Witness ==
  /\ IsSome(lastCall)
  /\ Get(lastCall).id >= 3
  /\ Get(lastCall).source = "cache"
  /\ Len(Get(lastCall).tracks) > 0
  /\ Cardinality(DOMAIN returned) >= 2
  /\ calls = <<>>

\* C3: a loop armed with repetitions = N (N >= 1) is over once the periodic check
\* has seen currentTime >= endTime N times since arming: the interval is cancelled,
\* the loop descriptor is cleared, and the browser has no interval left to fire,
\* so no later tick rewinds the position.
C3_LimitedLoopEnds ==
  /\ (LoopIsLimited /\ LoopLimit >= 1) => crossings < LoopLimit
  /\ _loopTimer # 0 => IsSome(_loopOptions)
  /\ timers # {} => _loopTimer # 0

\* C3 witness: the limit MaxReps was reached and playback went on past endTime.
C3_Witness ==
  /\ crossings = MaxReps /\ _loopCount = MaxReps
  /\ _loopOptions = None /\ _loopTimer = 0 /\ timers = {}
  /\ _audioElement # 0 /\ Cur.currentTime > 2

\* C4: with repetitions = N, each of the first N observed crossings of endTime
\* rewinds the position to startTime (the position passes endTime only on
\* crossing N + 1).
C4_FirstNCrossingsRewind ==
  [][ ( /\ LoopTick
        /\ _audioElement # 0
        /\ LoopIsLimited
        /\ Cur.currentTime >= Get(_loopOptions).endTime
        /\ crossings < LoopLimit )
      => ( /\ _audioElement' = _audioElement
           /\ handles'[_audioElement].currentTime = Get(_loopOptions).startTime ) ]_vars

\* C5: with no repetitions, every tick of the live interval that sees
\* currentTime >= endTime sets the position back to startTime, and leaves the
\* interval and the loop descriptor in place.
C5_UnlimitedLoopRewinds ==
  [][ ( /\ LoopTick
        /\ _audioElement # 0
        /\ IsSome(_loopOptions)
        /\ ~LoopIsLimited
        /\ Cur.currentTime >= Get(_loopOptions).endTime )
      => ( /\ _audioElement' = _audioElement
           /\ handles'[_audioElement].currentTime = Get(_loopOptions).startTime
           /\ _loopTimer' = _loopTimer /\ _loopTimer' # 0
           /\ timers' = timers
           /\ _loopOptions' = _loopOptions ) ]_vars

\* C5 witness: an unlimited loop still live after more crossings than any limit.
C5_Witness ==
  /\ IsSome(_loopOptions) /\ ~LoopIsLimited
  /\ _loopTimer # 0 /\ _audioElement # 0
  /\ crossings = MaxReps + 1
  /\ Cur.currentTime = Get(_loopOptions).startTime

\* C6: a callback registered while no element is loaded (and not removed since)
\* is attached to the element of the next load and of every later load.
C6_ListenersSurviveLoads ==
  _audioElement # 0 =>
    \A r \in preRegistered : <<r[1], r[2]>> \in Cur.attached

\* C6 witness: a callback registered before the first load sits on the element
\* of the second load.
C6_Witness ==
  /\ _audioElement # 0 /\ handleSeq >= 2
  /\ \E r \in preRegistered : r[3] = 0 /\ <<r[1], r[2]>> \in Cur.attached

\* C7: setVolume(level) leaves the volume as it is when level < 0 or level > 1
\* and sets it to level otherwise; the volume of an element stays within [0, 1].
C7_SetVolumeInRange ==
  /\ [](\A h \in DOMAIN handles : handles[h].volume \in 0..10)
  /\ [][ \A level \in VolumeLevels :
           (Commit(setVolume(Self, level)) /\ _audioElement # 0)
           => /\ _audioElement' = _audioElement
              /\ handles'[_audioElement].volume =
                   IF level >= 0 /\ level <= 10 THEN level ELSE Cur.volume ]_vars

\* C7 witness: a volume only setVolume can have set.
C7_Witness == _audioElement # 0 /\ Cur.volume = 0

\* Just settled: a playRandomByGenre call whose search returned no track.
EmptyGenreSettles ==
  /\ IsSome(lastCall') /\ lastCall' # lastCall
  /\ Get(lastCall').cont = "playRandomByGenre"
  /\ Len(Get(lastCall').tracks) = 0

\* C8: when the search of playRandomByGenre returns zero tracks, the call fails
\* with the 'no tracks found' error and neither loads nor plays: the element,
\* the current track and the loop timer are as they were.
C8_EmptyGenreFailsUntouched ==
  [][ EmptyGenreSettles
      => ( /\ Get(lastCall').error = "No tracks found for genre"
           /\ playerVars' = playerVars ) ]_vars

\* C8 witness: playRandomByGenre failed on an empty result while a track was
\* loaded and a loop was armed; both are still there.
C8_Witness ==
  /\ IsSome(lastCall)
  /\ Get(lastCall).cont = "playRandomByGenre"
  /\ Get(lastCall).source = "network"
  /\ Get(lastCall).error = "No tracks found for genre"
  /\ _audioElement # 0 /\ IsSome(_currentTrack) /\ _loopTimer # 0

\* The body built for the options last handed to the query builder.
Body == Get(built).body

NoTermNoTagsNoAgeNoSize ==
  /\ IsSome(query)
  /\ ~TruthyStr(Get(query).searchTerm)
  /\ (Get(query).tags = None \/ Get(query).tags = Some(<<>>))
  /\ Get(query).maxAgeInHours = None
  /\ Get(query).maxResults = None

DefaultBody ==
  /\ Body.searchQuery.maxAgeInHours = DefaultMaxAge
  /\ Body.pageSize = pageSize
  /\ Body.searchQuery.searchTerm = ""
  /\ Body.pageParam = 0
  /\ Body.searchQuery.containsTags = None

\* C9 as stated: a search with no term, no tags and no explicit max-age or
\* maxResults sends maxAgeInHours 168, the player's page size, an empty
\* searchTerm, pageParam 0 and no containsTags.
C9_DefaultsWithoutTermAndTags ==
  NoTermNoTagsNoAgeNoSize => DefaultBody

\* C9 amended: the same, for a search that also gives no page; an explicit page
\* is sent as pageParam.
C9_DefaultsWithoutTermTagsAndPage ==
  /\ (NoTermNoTagsNoAgeNoSize /\ Get(query).page = None) => DefaultBody
  /\ (NoTermNoTagsNoAgeNoSize /\ TruthyNum(Get(query).page))
       => Body.pageParam = Get(Get(query).page)

\* C9 witness: a player with a page size other than the default builds the
\* body of search({}).
C9_Witness ==
  /\ query = Some(NoOptions)
  /\ pageSize # DefaultPageSize
  /\ Body.pageSize = pageSize /\ Body.searchQuery.maxAgeInHours = DefaultMaxAge

\* C10: at most one element and at most one interval are live, they are the ones
\* the player refers to, a live interval implies a live element, and load and
\* stop leave no interval behind.
C10_OneHandleOneTimer ==
  /\ DOMAIN handles = (IF _audioElement = 0 THEN {} ELSE {_audioElement})
  /\ timers = (IF _loopTimer = 0 THEN {} ELSE {_loopTimer})
  /\ _loopTimer # 0 => _audioElement # 0

\* C10 witness: a loop was armed on an element that has since been torn down,
\* and a second loop runs on its successor.
C10_Witness ==
  /\ IsSome(lastTorn) /\ _audioElement # 0 /\ Get(lastTorn).id # _audioElement
  /\ _loopTimer # 0 /\ crossings >= 1

\* C11: every request issued through a proxy descriptor uses a method the
\* descriptor lists; the POST of search never goes through a GET-only proxy.
C11_MethodSupportedByProxy ==
  \A id \in DOMAIN calls :
    calls[id].pc = "proxy" =>
      calls[id].method \in Proxies[calls[id].via + 1].methods

\* The proxy is marked failed and its cooldown has not elapsed.
InCooldown(i) ==
  /\ proxyManager.status[i] = "failed"
  /\ IsSome(proxyManager.lastTestedTime[i])
  /\ now - Get(proxyManager.lastTestedTime[i]) < RetryDelay

\* C12: a proxy marked failed is not selected for a request until 30 minutes
\* have passed since its last recorded failure, neither by a retry of the same
\* fetch nor by the first attempt of a later fetch. (While a request waits, its
\* proxy's mark does not change and the clock only advances, so a waiting
\* request whose proxy is in cooldown was issued in cooldown.)
C12_FailedProxyRestsForCooldown ==
  \A id \in DOMAIN calls :
    calls[id].pc = "proxy" => ~InCooldown(calls[id].via)

\* C13: when a request issued through a proxy succeeds (worker relay, proxied
\* fetch or script injection), the fetch returns with that proxy marked
\* 'working'; when it fails, the proxy is marked 'failed' and the time of the
\* failure is recorded.
C13_ProxyMarkedByOutcome ==
  [][ \A id \in DOMAIN calls :
        calls[id].pc = "proxy" =>
          LET v == calls[id].via
          IN /\ id \notin DOMAIN calls'
                  => proxyManager'.status[v] = "working"
             /\ (id \in DOMAIN calls' /\ calls'[id] # calls[id])
                  => /\ proxyManager'.status[v] = "failed"
                     /\ IsSome(proxyManager'.lastTestedTime[v]) ]_vars

\* The attempts the mode and the retry limit allow before the last resort.
DirectAllowed == IF corsMode \in {"direct", "auto"} THEN 1 ELSE 0
ProxiesAllowed == IF corsMode \in {"proxy", "auto"} THEN maxRetries + 1 ELSE 0

BareRequests(c) == {k \in DOMAIN c.log : c.log[k].stage = "bare"}

\* A call's bare request, if it has made one, is its only one and its last
\* request, comes after every allowed attempt, omits credentials and carries
\* none of the caller's headers (only the Content-Type the last resort sets
\* itself when there is a body).
BareIsLastResort(c) ==
  LET n == Len(c.log)
  IN /\ Cardinality(BareRequests(c)) <= 1
     /\ (c.pc = "bare") = (BareRequests(c) # {})
     /\ BareRequests(c) # {} =>
          /\ BareRequests(c) = {n}
          /\ n = DirectAllowed + ProxiesAllowed + 1
          /\ \A k \in 1..DirectAllowed : c.log[k].stage = "direct"
          /\ \A k \in (DirectAllowed + 1)..(n - 1) : c.log[k].stage = "proxy"
          /\ c.log[n].credentials = "omit"
          /\ c.log[n].headers \cap (c.headers \ {"Content-Type"}) = {}
          /\ c.log[n].headers \subseteq {"Content-Type"}
          /\ (~IsSome(c.body)) => c.log[n].headers = {}

\* C14: the bare request to the unmodified URL is issued only after every
\* attempt the mode and the retry limit allow has failed, at most once per
\* fetch, with credentials omitted and without the caller's headers; when it
\* ends the fetch is over and no further request is made, and if it threw the
\* fetch rejects.
C14_BareRequestLastAndOnce ==
  /\ [](\A id \in DOMAIN calls : BareIsLastResort(calls[id]))
  /\ [][ \A id \in DOMAIN calls :
           (calls[id].pc = "bare" /\ calls' # calls)
           => /\ calls' = <<>>
              /\ proxyManager' = proxyManager
              /\ IsSome(lastCall') /\ Get(lastCall').id = id
              /\ (Get(lastCall').kind = "fetch" /\ Get(lastCall').payload = NoPayload)
                   => Get(lastCall').source = "rejected" ]_vars

\* C14 witness: in auto mode a fetch with caller headers went through the
\* direct attempt, every proxy attempt and the bare request, and was rejected.
C14_Witness ==
  /\ corsMode = "auto"
  /\ calls = <<>>
  /\ IsSome(lastCall)
  /\ Get(lastCall).kind = "fetch"
  /\ Get(lastCall).source = "rejected"
  /\ \A i \in 0..(NumProxies - 1) : proxyManager.status[i] = "failed"

Settled(n) == jsonpRequests[n].state \in {"resolved", "rejected"}

\* C15: once the promise of a script-injection request has settled, by the
\* callback or by the script's error, its script tag is no longer in the
\* document and its callback is no longer on window; and the step that settles
\* it is the step that removes both.
C15_JsonpCleansUp ==
  /\ [](\A n \in DOMAIN jsonpRequests :
          Settled(n) => /\ n \notin bodyScripts
                        /\ jsonpRequests[n].callbackName \notin DOMAIN windowCallbacks)
  /\ [][ \A n \in DOMAIN jsonpRequests :
           (~Settled(n) /\ Settled(n)')
           => /\ n \in bodyScripts /\ n \notin bodyScripts'
              /\ jsonpRequests[n].callbackName \in DOMAIN windowCallbacks
              /\ jsonpRequests[n].callbackName \notin DOMAIN windowCallbacks' ]_vars

\* C15 witness: one request resolved and one rejected, nothing left behind,
\* while the tag and the callback of no other request are touched.
C15_Witness ==
  /\ \E n \in DOMAIN jsonpRequests : jsonpRequests[n].state = "resolved"
  /\ \E n \in DOMAIN jsonpRequests : jsonpRequests[n].state = "rejected"
  /\ bodyScripts = {}
  /\ windowCallbacks = <<>>
  /\ callbackCounter = MaxJsonp

\* C16: the pending table holds exactly the requests not yet settled; ids are
\* handed out in increasing order and never reused; a message settles the
\* pending request of its own id, once, and removes it from the table, whatever
\* the order of arrival; no other request is touched, and a message whose id is
\* not pending changes nothing.
C16_RelayMatchesById ==
  /\ [](/\ DOMAIN relayPromises = 0..(_requestId - 1)
         /\ _workerRequests = {id \in DOMAIN relayPromises :
                                 relayPromises[id].state = "pending"}
         /\ \A id \in DOMAIN relayPromises :
              /\ relayPromises[id].settles <= 1
              /\ (relayPromises[id].settles = 1) = (relayPromises[id].state # "pending"))
  /\ [][ /\ _requestId' >= _requestId
         /\ \A id \in DOMAIN relayPromises : id \in DOMAIN relayPromises'
         /\ _requestId' # _requestId
              => /\ _requestId \notin DOMAIN relayPromises
                 /\ _workerRequests' = _workerRequests \cup {_requestId}
                 /\ \A id \in DOMAIN relayPromises :
                      relayPromises'[id] = relayPromises[id]
         /\ lastMessage' # lastMessage
              => LET msg == Get(lastMessage')
                 IN /\ \A id \in DOMAIN relayPromises :
                         id # msg.id => relayPromises'[id] = relayPromises[id]
                    /\ IF msg.id \in _workerRequests
                       THEN /\ _workerRequests' = _workerRequests \ {msg.id}
                            /\ relayPromises'[msg.id].state =
                                 (IF msg.success THEN "resolved" ELSE "rejected")
                       ELSE /\ _workerRequests' = _workerRequests
                            /\ relayPromises' = relayPromises ]_vars

\* C16 witness: three requests were outstanding together; the last was answered
\* first, the first is still pending, and a repeated answer changed nothing.
C16_Witness ==
  /\ _requestId = MaxRelay
  /\ relayPromises[0].state = "pending"
  /\ relayPromises[1].state = "rejected"
  /\ relayPromises[2].state = "resolved"
  /\ lastMessage = Some([id |-> 2, success |-> FALSE])

TrackIds(tracks) == [i \in 1..Len(tracks) |-> tracks[i].id]

\* The step in which search call id ends because its last request threw.
SearchExhausted(id) ==
  /\ calls[id].kind = "search"
  /\ calls[id].pc = "bare"
  /\ id \notin DOMAIN calls'
  /\ Get(lastCall').payload = NoPayload

\* C17: when the last request of a search's fallback chain throws, the search
\* does not reject: it resolves with the two placeholder tracks demo1, demo2,
\* the same list on every such failure, and caches nothing.
C17_ExhaustedSearchGivesDemoTracks ==
  [][ \A id \in DOMAIN calls :
        SearchExhausted(id)
        => /\ Get(lastCall').id = id
           /\ Get(lastCall').source = "demo"
           /\ Get(lastCall').error = ""
           /\ Get(lastCall').tracks = _getDemoTracks
           /\ TrackIds(Get(lastCall').tracks) = <<"demo1", "demo2">>
           /\ searchCache' = searchCache ]_vars

\* C17 witness: the third search in a row exhausted its chain and got the
\* placeholder list; nothing was ever cached.
C17_Witness ==
  /\ callSeq = MaxCalls
  /\ calls = <<>>
  /\ searchCache = <<>>
  /\ IsSome(lastCall)
  /\ Get(lastCall).kind = "search"
  /\ Get(lastCall).payload = NoPayload
  /\ Get(lastCall).source = "demo"
  /\ Len(Get(lastCall).tracks) = 2

\* A payload search cannot use: text that is not JSON, or no data array.
UnexpectedShape(payload) ==
  \/ payload.isText /\ ~payload.parses
  \/ ~payload.hasData

\* C18: when a search's request is answered with a payload of unexpected
\* shape, the call ends at once, without another request, and the parse
\* failure is raised to the caller of search.
C18_ParseFailureRaised ==
  [][ \A id \in DOMAIN calls :
        ( /\ calls[id].kind = "search"
          /\ calls' # calls
          /\ IsSome(lastCall') /\ Get(lastCall').id = id
          /\ Get(lastCall').payload \in Payloads
          /\ UnexpectedShape(Get(lastCall').payload) )
        => /\ id \notin DOMAIN calls'
           /\ Get(lastCall').source = "rejected"
           /\ Get(lastCall').tracks = <<>> ]_vars

\* C19: after stop(), whatever the state before: the player refers to no
\* element and none is live, there is no current track, no interval is live,
\* the element that was loaded has been paused and its source cleared, none of
\* the registry's callbacks is attached to it any more, and the registry is as
\* it was.
C19_StopTearsDown ==
  [][ Commit(stop(Self))
      => /\ _audioElement' = 0
         /\ DOMAIN handles' = {}
         /\ _currentTrack' = None
         /\ _loopTimer' = 0
         /\ timers' = {}
         /\ _eventListeners' = _eventListeners
         /\ _audioElement # 0
              => /\ IsSome(lastTorn')
                 /\ Get(lastTorn').id = _audioElement
                 /\ Get(lastTorn').paused
                 /\ Get(lastTorn').src = ""
                 /\ Get(lastTorn').attached \cap RegistryPairs(Self) = {}
                 /\ Get(lastTorn').attached = {} ]_vars

\* C19 witness: a playing element with a looped section and registered
\* callbacks has been stopped; the callbacks are still in the registry.
C19_Witness ==
  /\ _audioElement = 0
  /\ IsSome(lastTorn)
  /\ Get(lastTorn).id = handleSeq
  /\ IsSome(_loopOptions)
  /\ RegistrySize(Self) = MaxListeners
  /\ _currentTrack = None
  /\ timers = {}

\* The step in which the search of a keyword play settles with no track.
KeywordFindsNothing ==
  /\ IsSome(lastCall') /\ lastCall' # lastCall
  /\ Get(lastCall').cont = "play"
  /\ Len(Get(lastCall').tracks) = 0

\* C20: when the search of play(keywords) or play(tags) yields no track, play
\* fails with the 'no matching track' error and does not load: the element,
\* the current track and the loop timer are as they were.
C20_NoMatchFailsUntouched ==
  [][ KeywordFindsNothing
      => ( /\ Get(lastCall').error = "No matching track found"
           /\ playerVars' = playerVars ) ]_vars

\* C20 witness: play by keyword found nothing while a track was loaded and a
\* loop was armed; both are still there.
C20_Witness ==
  /\ IsSome(lastCall)
  /\ Get(lastCall).cont = "play"
  /\ Get(lastCall).source = "network"
  /\ Get(lastCall).error = "No matching track found"
  /\ _audioElement # 0 /\ IsSome(_currentTrack) /\ _loopTimer # 0

\* C21: loop state does not survive a track change: after stop(), and after a
\* load has created its element, there are no loop options and the loop
\* counter is zero.
C21_LoopStateResetOnTrackChange ==
  [][ (Commit(stop(Self)) \/ handleSeq' # handleSeq)
      => /\ _loopOptions' = None
         /\ _loopCount' = 0 ]_vars

InRateRange(rate) == rate >= 5 /\ rate <= 40

C23_ArmingJumpsOnlyFromOutside ==
  [][ \A options \in LoopOptions :
        (Commit(loopSection(Self, options)) /\ _audioElement # 0)
        => /\ _audioElement' = _audioElement
           /\ handles'[_audioElement].currentTime =
                (IF Cur.currentTime < options.startTime
                    \/ Cur.currentTime > options.endTime
                 THEN options.startTime
                 ELSE Cur.currentTime) ]_vars

\* C23 witness: a loop is armed, no tick has seen the end of the section yet,
\* and the position is on endTime.
C23_Witness ==
  /\ _audioElement # 0 /\ _loopTimer # 0
  /\ IsSome(_loopOptions)
  /\ crossings = 0 /\ _loopCount = 0
  /\ Cur.currentTime = Get(_loopOptions).endTime
  /\ Get(_loopOptions).endTime < MaxTime

\* C24: setLoop(enabled) on a loaded element cancels the section loop's
\* interval, for either value of enabled; loopSection turns the element's
\* native loop flag off; in every state a live interval implies the flag is off.
C24_SectionLoopExcludesNativeLoop ==
  /\ [](_loopTimer # 0 => (_audioElement # 0 /\ ~Cur.loop))
  /\ [][ /\ \A enabled \in BOOLEAN :
             (Commit(setLoop(Self, enabled)) /\ _audioElement # 0)
             => /\ _loopTimer' = 0
                /\ timers' = {}
                /\ handles'[_audioElement].loop = enabled
         /\ \A options \in LoopOptions :
             (Commit(loopSection(Self, options)) /\ _audioElement # 0)
             => /\ ~handles'[_audioElement].loop
                /\ _loopTimer' # 0 ]_vars

\* C24 witness: setLoop(true) cancelled a section loop: the flag is on, the
\* section is still recorded, and no interval is live.
C24_Witness ==
  /\ _audioElement # 0
  /\ Cur.loop
  /\ IsSome(_loopOptions)
  /\ _loopTimer = 0 /\ timers = {}

\* C25: on one player, two searches whose request bodies differ (in term, tag
\* list, sort, max-age, owner, page or page size as sent) have different cache
\* keys: every query with the key of the query just built has its body too.
C25_DistinctBodiesDistinctKeys ==
  IsSome(built) =>
    \A options \in SearchOptions :
      requestBody(options, pageSize) # Get(built).body
      => cacheKey(options, pageSize) # Get(built).key

\* C25 witness: the query just built shares its key (and body) with a query
\* written differently, and some other query has another body and another key.
C25_Witness ==
  /\ IsSome(built)
  /\ \E options \in SearchOptions :
       /\ options # Get(query)
       /\ cacheKey(options, pageSize) = Get(built).key
       /\ requestBody(options, pageSize) = Get(built).body
  /\ \E options \in SearchOptions :
       /\ requestBody(options, pageSize) # Get(built).body
       /\ cacheKey(options, pageSize) # Get(built).key

\* The step in which the proxied request of call id ends.
ProxiedRequestEnds(id) ==
  /\ calls[id].pc = "proxy"
  /\ (id \notin DOMAIN calls' \/ calls'[id] # calls[id])

\* C26: with fetches in flight together, when a proxied request fails the
\* proxy it was issued through is the one marked failed, and when it succeeds
\* (by worker relay or plain fetch) that proxy is the one marked working,
\* whatever the order in which the fetches complete.
C26_MarksTheProxyOfTheRequest ==
  [][ \A id \in DOMAIN calls :
        ProxiedRequestEnds(id)
        => IF id \in DOMAIN calls'
           THEN proxyManager'.status[calls[id].via] = "failed"
           ELSE calls[id].transport # "jsonp"
                => proxyManager'.status[calls[id].via] = "working" ]_vars

\* The step in which the search of a keyword play settles with a track.
KeywordFindsTrack ==
  /\ IsSome(lastCall') /\ lastCall' # lastCall
  /\ Get(lastCall').cont = "play"
  /\ Len(Get(lastCall').tracks) > 0

\* C27: a keyword play is not cancelled by a later play: when its search
\* settles with a track it tears down whatever element is loaded, also one a
\* later call loaded in the meantime, and loads its own track; the track left
\* loaded is that of the play whose search settled last.
C27_LatePlayStillLoads ==
  [][ KeywordFindsTrack
      => /\ handleSeq' = handleSeq + 1
         /\ _audioElement' = handleSeq'
         /\ DOMAIN handles' = {_audioElement'}
         /\ handles'[_audioElement'].src = Get(lastCall').tracks[1].url
         /\ IsSome(_currentTrack')
         /\ Get(_currentTrack').id = Get(lastCall').tracks[1].id
         /\ _audioElement # 0
              => (IsSome(lastTorn') /\ Get(lastTorn').id = _audioElement) ]_vars

\* C27 witness: two keyword plays overlapped; the second call's search settled
\* first and its track was loaded; then the first call's search settled, tore
\* that element down and loaded its own track.
C27_Witness ==
  /\ callSeq = 2 /\ calls = <<>>
  /\ IsSome(lastCall)
  /\ Get(lastCall).id = 1
  /\ Get(lastCall).cont = "play"
  /\ Get(lastCall).source = "network"
  /\ handleSeq = 2 /\ _audioElement = 2
  /\ IsSome(lastTorn) /\ Get(lastTorn).id = 1
  /\ Get(_currentTrack).id = Get(lastCall).tracks[1].id

\* C28: the fallback chain returns a payload only from a response with a 2xx
\* status, on every path; a response with another status never marks a proxy
\* working.
C28_PayloadOnlyFrom2xx ==
  /\ []((IsSome(lastCall) /\ Get(lastCall).payload \in Payloads)
          => Get(lastCall).status = "2xx")
  /\ [][ (IsSome(lastCall') /\ lastCall' # lastCall /\ Get(lastCall').status = "other")
         => \A i \in 0..(NumProxies - 1) :
              proxyManager'.status[i] = "working" => proxyManager.status[i] = "working" ]_vars

\* The manager as its constructor leaves it.
ManagerUntouched ==
  /\ proxyManager.currentProxyIndex = 0
  /\ \A i \in 0..(NumProxies - 1) :
       /\ proxyManager.status[i] = "untested"
       /\ proxyManager.lastTestedTime[i] = None

\* Requests of a call to the unmodified URL: the direct and the bare request.
UnmodifiedRequests(c) == {k \in DOMAIN c.log : c.log[k].stage \in {"direct", "bare"}}

\* C29: in direct mode no request goes through a proxy and the manager's
\* statuses, timestamps and index never change; in proxy mode the unmodified
\* URL is requested only once every proxy attempt has failed (maxRetries + 1
\* of them); in auto mode the direct attempt is the first request of a fetch
\* and is never made on a retry.
C29_ModeFramesRequests ==
  /\ corsMode = "direct"
       => /\ ManagerUntouched
          /\ \A id \in DOMAIN calls : ProxyAttempts(calls[id]) = {}
  /\ corsMode = "proxy"
       => \A id \in DOMAIN calls :
            \A k \in UnmodifiedRequests(calls[id]) :
              /\ calls[id].log[k].stage = "bare"
              /\ k = maxRetries + 2
              /\ \A j \in 1..(k - 1) : calls[id].log[j].stage = "proxy"
  /\ corsMode = "auto"
       => \A id \in DOMAIN calls :
            \A k \in DOMAIN calls[id].log :
              (calls[id].log[k].stage = "direct") = (k = 1)

\* C29 witness: in auto mode a fetch has made its direct attempt and all its
\* proxy attempts and is at its bare request.
C29_Witness ==
  /\ corsMode = "auto"
  /\ maxRetries = MaxRetries
  /\ \E id \in DOMAIN calls :
       /\ calls[id].pc = "bare"
       /\ Len(calls[id].log) = maxRetries + 3
       /\ calls[id].log[1].stage = "direct"
       /\ Cardinality(ProxyAttempts(calls[id])) = maxRetries + 1

Outstanding(n) == jsonpRequests[n].state = "pending"

\* C30: no two outstanding script-injection requests have the same callback
\* name, also when they were made by the handlers of two players at the same
\* clock value, and registering a callback never replaces the callback of
\* another request.
C30_CallbackNamesUnique ==
  /\ [](\A n1, n2 \in DOMAIN jsonpRequests :
          (n1 # n2 /\ Outstanding(n1) /\ Outstanding(n2))
          => jsonpRequests[n1].callbackName # jsonpRequests[n2].callbackName)
  /\ [][ \A name \in DOMAIN windowCallbacks :
           name \in DOMAIN windowCallbacks'
           => windowCallbacks'[name] = windowCallbacks[name] ]_vars

\* What a control returns, leaving aside the record of the rate requested.
SameAsSelf(p) == [p EXCEPT !.rateRequest = rateRequest] = Self

\* C31: with no element loaded, pause, resume, setVolume, setPlaybackRate,
\* seek, setLoop and loopSection return the player as it was, and every step
\* that is not a load leaves the element, the current track, the loop timer,
\* the loop options and the loop count as they were.
C31_ControlsIdleWithoutHandle ==
  /\ [](_audioElement = 0 =>
          /\ SameAsSelf(pause(Self))
          /\ \A allowed \in BOOLEAN : SameAsSelf(resume(Self, allowed))
          /\ \A level \in VolumeLevels : SameAsSelf(setVolume(Self, level))
          /\ \A rate \in Rates : SameAsSelf(setPlaybackRate(Self, rate))
          /\ \A seconds \in SeekTargets : SameAsSelf(seek(Self, seconds))
          /\ \A enabled \in BOOLEAN : SameAsSelf(setLoop(Self, enabled))
          /\ \A options \in LoopOptions : SameAsSelf(loopSection(Self, options)))
  /\ [][ (_audioElement = 0 /\ handleSeq' = handleSeq)
         => UNCHANGED <<_audioElement, _currentTrack, _loopTimer, _loopOptions,
                        _loopCount, handles, timers>> ]_vars

\* setPlaybackRate was called, a section loop was armed and the element was
\* stopped: no element, no current track, no timer.
C31_Witness ==
  /\ _audioElement = 0
  /\ IsSome(lastTorn)
  /\ IsSome(_loopOptions)
  /\ IsSome(rateRequest)
  /\ _currentTrack = None
  /\ _loopTimer = 0

\* The last call to settle was a search that fell back to the demo tracks.
LastFellBack ==
  /\ IsSome(lastCall)
  /\ Get(lastCall).kind = "search"
  /\ Get(lastCall).source = "demo"

\* C32: the demo tracks are never written to the search cache: every cache
\* entry is the list formatted from a payload that parsed and had a data
\* array; a search that falls back to the demo tracks leaves the cache as it
\* was, with no entry under its key, and a search made next with the same key
\* issues a request instead of being served from the cache.
C32_DemoTracksNeverCached ==
  /\ [](\A key \in DOMAIN searchCache :
          /\ searchCache[key] # _getDemoTracks
          /\ \E payload \in Payloads :
               /\ formatResult(payload).ok
               /\ searchCache[key] = formatResult(payload).tracks)
  /\ [][ \A id \in DOMAIN calls :
           (id \notin DOMAIN calls' /\ Get(lastCall').source = "demo")
           => /\ searchCache' = searchCache
              /\ ~cacheHit(searchCache', calls[id].key) ]_vars
  /\ [][ (LastFellBack /\ callSeq' = callSeq + 1)
         => \/ callSeq' \in DOMAIN calls'
            \/ /\ Get(lastCall').source = "cache"
               /\ Get(lastCall').key # Get(lastCall).key
               /\ Get(lastCall').tracks # _getDemoTracks ]_vars

\* C32 witness: a first search was cached, a second fell back to the demo
\* tracks, and the third, with the key of the second, is out with a request.
C32_Witness ==
  /\ LastFellBack
  /\ Get(lastCall).id = 2
  /\ searchCache # <<>>
  /\ callSeq = 3
  /\ 3 \in DOMAIN calls
  /\ calls[3].kind = "search"
  /\ calls[3].key = Get(lastCall).key

\* C33: whenever an element is loaded, the (event, callback) pairs attached
\* to it are the pairs of the registry, whatever addEventListener,
\* removeEventListener, loads and stops came before; a pair that leaves the
\* registry is on no element after that step, so no later element gets it.
C33_AttachedIsRegistry ==
  /\ [](\A h \in DOMAIN handles : handles[h].attached = RegistryPairs(Self))
  /\ [][ \A pair \in RegistryPairs(Self) :
           pair \notin RegistryPairs(Self)'
           => \A h \in DOMAIN handles' : pair \notin handles'[h].attached ]_vars

\* C33 witness: the second element carries exactly the registry: a pair
\* registered between the stop of the first element and the second load, and
\* a pair registered while the second element was loaded.
C33_Witness ==
  /\ _audioElement # 0
  /\ handleSeq = 2
  /\ Cur.attached = RegistryPairs(Self)
  /\ \E r \in preRegistered : r[3] = 1 /\ <<r[1], r[2]>> \in Cur.attached
  /\ \E pair \in Cur.attached : \A r \in preRegistered : <<r[1], r[2]>> # pair

\* The element the player holds failed to load.
LoadFailed == _audioElement # 0 /\ Cur.readyState = "error"

\* C34: getCurrentTrack returns null exactly when no element is loaded; the
\* step in which a load fails leaves the element and the current track in
\* place, and while the failed element is held getCurrentTrack returns the
\* track whose URL was given to it.
C34_CurrentTrackIffHandle ==
  /\ []((getCurrentTrack(Self) = None) <=> (_audioElement = 0))
  /\ [](LoadFailed => /\ _audioElement \in DOMAIN handles
                      /\ IsSome(getCurrentTrack(Self))
                      /\ Get(getCurrentTrack(Self)).url = Cur.src)
  /\ [][ (~LoadFailed /\ LoadFailed')
         => /\ _audioElement' = _audioElement
            /\ getCurrentTrack(Self)' = getCurrentTrack(Self)
            /\ IsSome(getCurrentTrack(Self)) ]_vars

\* C34 witness: the first element was stopped, the second failed to load and
\* is still held with its track.
C34_Witness ==
  /\ LoadFailed
  /\ handleSeq = 2
  /\ IsSome(lastTorn)
  /\ IsSome(getCurrentTrack(Self))
  /\ Get(getCurrentTrack(Self)).url = Cur.src

====
